---- MODULE Spec2Model ----
(***************************************************************************)
(* tix: ticket workspaces made of git worktrees over several registered    *)
(* repositories.  The model covers the three stores the lifecycle engine   *)
(* must keep consistent: the ticket directory on disk, the backend's own   *)
(* branch / worktree records of every source repository, and the ticket    *)
(* metadata record (.tix/info.toml).                                       *)
(*                                                                         *)
(* Strings that the code computes with (branch names, descriptions,        *)
(* worktree names) are sequences of characters, a character being a        *)
(* one-letter string.  Names that are only compared (aliases, directory    *)
(* names) are plain strings.  Option<T> is a sequence of length 0 or 1.    *)
(***************************************************************************)
EXTENDS Integers, Sequences, FiniteSets, TLC

\* ---------------------------------------------------------------- bounds
\* longest explicit alias list given to one setup invocation
MaxRepos == 2

\* longest description handed to the branch namer on its own
MaxLen == 3

\* most commits the remote's main line gains, and most local commits on top
MaxCommits == 2
MaxLocal == 1

\* most invocations of the credential callback within one session
MaxCalls == 7

\* ------------------------------------------------------------ characters
AsciiUpper ==
    << "A","B","C","D","E","F","G","H","I","J","K","L","M",
       "N","O","P","Q","R","S","T","U","V","W","X","Y","Z" >>

AsciiLower ==
    << "a","b","c","d","e","f","g","h","i","j","k","l","m",
       "n","o","p","q","r","s","t","u","v","w","x","y","z" >>

AsciiDigit == << "0","1","2","3","4","5","6","7","8","9" >>

\* alphanumeric characters outside ASCII: U+00C9 is an uppercase letter,
\* U+00E9 its lowercase form
NonAsciiAlnum == { "U+00C9", "U+00E9" }

Range(s) == { s[i] : i \in 1..Len(s) }

\* char::is_alphanumeric
is_alphanumeric(c) ==
    c \in Range(AsciiUpper) \cup Range(AsciiLower) \cup Range(AsciiDigit)
          \cup NonAsciiAlnum

\* char::to_ascii_lowercase: only A-Z are mapped, everything else is kept
to_ascii_lowercase(c) ==
    IF c \in Range(AsciiUpper)
    THEN AsciiLower[CHOOSE i \in 1..Len(AsciiUpper) : AsciiUpper[i] = c]
    ELSE c

\* str::replace(from, to) for one-character patterns
RECURSIVE replace(_, _, _)
replace(s, from, to) ==
    IF s = << >> THEN << >>
    ELSE << (IF Head(s) = from THEN to ELSE Head(s)) >>
         \o replace(Tail(s), from, to)

\* ----------------------------------------------------------- branch namer
RECURSIVE sanitize_loop(_, _, _)
sanitize_loop(input, result, last_was_hyphen) ==
    IF input = << >> THEN result
    ELSE LET c == Head(input) IN
         IF is_alphanumeric(c)
         THEN sanitize_loop(Tail(input),
                            Append(result, to_ascii_lowercase(c)), FALSE)
         ELSE IF ~last_was_hyphen
         THEN sanitize_loop(Tail(input), Append(result, "-"), TRUE)
         ELSE sanitize_loop(Tail(input), result, last_was_hyphen)

sanitize_description(input) ==
    LET result == sanitize_loop(input, << >>, TRUE) IN
    IF result # << >> /\ result[Len(result)] = "-"
    THEN SubSeq(result, 1, Len(result) - 1)
    ELSE result

\* (variant: the description is left out of the branch name)
build_branch_name_no_description(branch_prefix, ticket_id, description) ==
    branch_prefix \o << "/" >> \o ticket_id

build_branch_name(branch_prefix, ticket_id, description) ==
    LET branch_name == branch_prefix \o << "/" >> \o ticket_id IN
    IF description # << >> /\ sanitize_description(description[1]) # << >>
    THEN branch_name \o << "-" >> \o sanitize_description(description[1])
    ELSE branch_name

worktree_name_for_branch(branch) == replace(branch, "/", "_")

\* remove.rs keeps its own derivation, which already flattens the name
build_worktree_name(branch_prefix, ticket_id, description) ==
    LET branch_name == branch_prefix \o << "/" >> \o ticket_id IN
    replace(IF description # << >>
               /\ sanitize_description(description[1]) # << >>
            THEN branch_name \o << "-" >>
                 \o sanitize_description(description[1])
            ELSE branch_name,
            "/", "_")

\* ---------------------------------------------------------- configuration
DEFAULT_BRANCH_PREFIX == << "f","e","a","t","u","r","e" >>

\* the one ticket the model follows
TicketId == << "J","-","1" >>

\* names a caller may pass as alias, or give to a directory in the ticket
Names == { "api", "web" }

None == << >>
Some(x) == << x >>

Descriptions == { None, Some(<< "M","y"," ","F" >>) }

\* revisions a caller may pass to add as the base of a new branch
MainRef == << "m","a","i","n" >>
BaseRefs == { None, Some(MainRef), Some(<< "g","o","n","e" >>) }

\* every order in which a HashMap (or read_dir) may enumerate the entries S
Orders(S) == { o \in [1..Cardinality(S) -> S] : Range(o) = S }

\* one of them, where the order makes no difference
SomeOrder(S) == CHOOSE o \in Orders(S) : TRUE

\* ------------------------------------------------- ticket metadata store
EmptyMap == [a \in {} |-> << >>]

MapPut(m, k, v) ==
    [a \in DOMAIN m \cup {k} |-> IF a = k THEN v ELSE m[a]]

MapDel(m, k) == [a \in DOMAIN m \ {k} |-> m[a]]

\* the map built from (alias, branch) pairs by successive inserts
RECURSIVE insert_all(_, _)
insert_all(m, pairs) ==
    IF pairs = << >> THEN m
    ELSE insert_all(MapPut(m, Head(pairs)[1], Head(pairs)[2]), Tail(pairs))

\* Ticket::create: the record it writes (order: how the map lists its keys)
TicketCreate(id, description, default_branch, repo_branches, order) ==
    LET repo_branch_map == insert_all(EmptyMap, repo_branches) IN
    [ description    |-> description,
      branch         |-> default_branch,
      id             |-> id,
      repo_branches  |-> repo_branch_map,
      repos          |-> order,
      repo_worktrees |-> EmptyMap ]

\* (variant: the seeding runs whenever repos is not empty)
Heal_always(metadata) ==
    IF metadata.repos # << >>
    THEN [metadata EXCEPT !.repo_branches =
              [a \in Range(metadata.repos) |-> metadata.branch]]
    ELSE metadata

\* Ticket::load on a stored record: the compatibility seeding
Heal(metadata) ==
    IF DOMAIN metadata.repo_branches = {} /\ metadata.repos # << >>
    THEN [metadata EXCEPT !.repo_branches =
              [a \in Range(metadata.repos) |-> metadata.branch]]
    ELSE metadata

\* Ticket::load: None when there is no stamp to read
TicketLoad(stored) == IF stored = None THEN None ELSE Some(Heal(stored[1]))

\* (variant: insert in the place of entry().or_insert_with())
RECURSIVE add_each_overwrite(_, _, _)
add_each_overwrite(metadata, repos, branch) ==
    IF repos = << >> THEN metadata
    ELSE LET r == Head(repos) IN
         add_each_overwrite(
             [metadata EXCEPT
                 !.repos = IF r \in Range(@) THEN @ ELSE Append(@, r),
                 !.repo_branches = MapPut(@, r, branch)],
             Tail(repos), branch)

\* (variant: the alias is pushed without the contains check)
RECURSIVE add_each_append(_, _, _)
add_each_append(metadata, repos, branch) ==
    IF repos = << >> THEN metadata
    ELSE LET r == Head(repos) IN
         add_each_append(
             [metadata EXCEPT
                 !.repos = Append(@, r),
                 !.repo_branches =
                     IF r \in DOMAIN @ THEN @ ELSE MapPut(@, r, branch)],
             Tail(repos), branch)

RECURSIVE add_each(_, _, _)
add_each(metadata, repos, branch) ==
    IF repos = << >> THEN metadata
    ELSE LET r == Head(repos) IN
         add_each([metadata EXCEPT
                      !.repos = IF r \in Range(@) THEN @ ELSE Append(@, r),
                      !.repo_branches =
                          IF r \in DOMAIN @ THEN @ ELSE MapPut(@, r, branch)],
                  Tail(repos), branch)

\* Ticket::add_repos_with_branch: the stored record afterwards
\* (callers have checked that the stamp exists)
add_repos_with_branch(stored, repos, branch) ==
    Some(add_each(TicketLoad(stored)[1], repos, branch))

\* Ticket::add_repo_branch
add_repo_branch(stored, repo, branch) ==
    Some(add_each(TicketLoad(stored)[1], << repo >>, branch))

\* (variant: the stored record is edited as it is, without the load)
remove_repo_unhealed(stored, repo) ==
    IF stored = None THEN stored
    ELSE Some([stored[1] EXCEPT
                  !.repos = SelectSeq(@, LAMBDA existing : existing # repo),
                  !.repo_branches = MapDel(@, repo)])

\* Ticket::remove_repo; a missing stamp is an error the caller ignores
remove_repo(stored, repo) ==
    IF stored = None THEN stored
    ELSE LET m == TicketLoad(stored)[1] IN
         Some([m EXCEPT
                  !.repos = SelectSeq(@, LAMBDA existing : existing # repo),
                  !.repo_branches = MapDel(@, repo)])

\* (variant: the given branch is written whatever the record holds)
ensure_branch_always(stored, branch) ==
    Some([TicketLoad(stored)[1] EXCEPT !.branch = branch])

\* Ticket::ensure_branch: writes only when the loaded branch is empty
ensure_branch(stored, branch) ==
    LET m == TicketLoad(stored)[1] IN
    IF m.branch = << >> THEN Some([m EXCEPT !.branch = branch]) ELSE stored

\* ------------------------------------------------------- program state
VARIABLES
    repositories, \* config.repositories: the registered aliases
    cloned,      \* registered aliases whose local path holds a repository
    branches,    \* per alias: local branches of its repository besides main
    worktrees,   \* per alias: names of the worktree records of its repository
    ticket_dir,  \* the ticket directory exists
    stamp,       \* Option<TicketMetadata>: what .tix/info.toml holds
    dirs         \* per name: state of the directory <ticket>/<name>

\* the references of the source repository "api" and of its remote; a
\* commit is a pair << k, l >>: the k-th commit of the remote's main line
\* with l commits made locally on top of it
VARIABLES
    origin,      \* the remote's branches: name -> commit
    tracking,    \* refs/remotes/origin/*: name -> commit
    head,        \* HEAD: "branch" (refs/heads/main) or "detached"
    tip,         \* the commit refs/heads/main points to
    tree,        \* the commit the main working tree shows
    upstream     \* the local branches with a configured upstream

\* one credential session: the state captured by the callback of one fetch
\* or clone, and what has been observed of it
VARIABLES
    tried_sshkey,
    tried_cred_helper,
    tried_git_command,
    attempts,    \* per strategy: how often it has been attempted
    returned,    \* how often the callback has returned a credential
    calls,       \* how often the backend has invoked the callback
    last         \* what the last invocation returned

\* one call of the branch namer
VARIABLES
    given,       \* its arguments
    derived      \* Option: the name it returned

\* two invocations that update the stamp of one ticket at the same time
VARIABLES
    pc,          \* per invocation: "idle", "loaded" (holds a record), "done"
    held,        \* per invocation: Option, the record Ticket::load gave it
    wanted,      \* per invocation: the branch it was called with
    overlap      \* an invocation loaded while the other held a record

\* one run of setup or add, followed call by call
VARIABLES
    running,     \* "none", "setup" or "add"
    rest,        \* the aliases still to be worked on, the current one first
    position,    \* the next call of the loop body for the current alias
    log,         \* the calls the run has made: << call, alias >>
    run_branch,  \* branch_name of the run
    run_base     \* base_ref of the run

ticket_vars ==
    << repositories, cloned, branches, worktrees, ticket_dir, stamp, dirs >>

ref_vars == << origin, tracking, head, tip, tree, upstream >>

cred_vars ==
    << tried_sshkey, tried_cred_helper, tried_git_command, attempts,
       returned, calls, last >>

namer_vars == << given, derived >>

race_vars == << pc, held, wanted, overlap >>

run_vars == << running, rest, position, log, run_branch, run_base >>

vars ==
    << ticket_vars, ref_vars, cred_vars, namer_vars, race_vars, run_vars >>

\* A directory <ticket>/<name> is "absent", a "plain" directory that is no
\* git working tree, or a worktree checked out on a branch that is "clean"
\* or "dirty" (has modified, staged or untracked entries).
Absent == [ branch |-> << >>, state |-> "absent" ]
Plain == [ branch |-> << >>, state |-> "plain" ]
Worktree(branch, state) == [ branch |-> branch, state |-> state ]

\* the part of the state the git engine reads and writes
Git == [ cloned |-> cloned, branches |-> branches,
         worktrees |-> worktrees, dirs |-> dirs ]

\* ------------------------------------------------------ git worktree engine
\* git::is_clean: Ok(true), Ok(false), or Err when the path opens no repository
is_clean(dir) ==
    CASE dir.state = "clean" -> "true"
      [] dir.state = "dirty" -> "false"
      [] OTHER               -> "err"

\* revparse_single of an explicit base (None: default branch, else HEAD)
resolves(g, repo, base) ==
    base = None \/ base[1] = MainRef \/ base[1] \in g.branches[repo]

\* git::create_worktree; the target path is <ticket>/<repo>.  An empty
\* branch name is found by no lookup and is refused as a reference name.
create_worktree(g, repo, branch_name, base_ref) ==
    IF repo \notin g.cloned THEN [g |-> g, ok |-> FALSE]
    ELSE IF branch_name = << >> THEN [g |-> g, ok |-> FALSE]
    ELSE IF branch_name \notin g.branches[repo] /\ ~resolves(g, repo, base_ref)
    THEN [g |-> g, ok |-> FALSE]
    ELSE LET g1 == [g EXCEPT !.branches[repo] = @ \cup { branch_name }]
             worktree_name == replace(branch_name, "/", "_")
         IN  IF worktree_name \in g1.worktrees[repo]
                \/ g1.dirs[repo] # Absent
             THEN [g |-> g1, ok |-> FALSE]
             ELSE [g  |-> [g1 EXCEPT
                              !.worktrees[repo] = @ \cup { worktree_name },
                              !.dirs[repo] = Worktree(branch_name, "clean")],
                   ok |-> TRUE]

\* (variant: a name without a record is an error)
remove_worktree_strict(g, repo, worktree_name) ==
    IF repo \notin g.cloned THEN [g |-> g, ok |-> FALSE]
    ELSE IF worktree_name \notin g.worktrees[repo]
    THEN [g |-> g, ok |-> FALSE]
    ELSE IF g.dirs[repo] # Absent THEN [g |-> g, ok |-> FALSE]
    ELSE [g  |-> [g EXCEPT !.worktrees[repo] = @ \ { worktree_name }],
          ok |-> TRUE]

\* (variant: every record without a working directory is pruned)
remove_worktree_all(g, repo, worktree_name) ==
    IF repo \notin g.cloned THEN [g |-> g, ok |-> FALSE]
    ELSE IF worktree_name \notin g.worktrees[repo] THEN [g |-> g, ok |-> TRUE]
    ELSE IF g.dirs[repo] # Absent THEN [g |-> g, ok |-> FALSE]
    ELSE [g  |-> [g EXCEPT !.worktrees[repo] = {}],
          ok |-> TRUE]

\* git::remove_worktree; prune(None) refuses a record whose working
\* directory still exists
remove_worktree(g, repo, worktree_name) ==
    IF repo \notin g.cloned THEN [g |-> g, ok |-> FALSE]
    ELSE IF worktree_name \notin g.worktrees[repo] THEN [g |-> g, ok |-> TRUE]
    ELSE IF g.dirs[repo] # Absent THEN [g |-> g, ok |-> FALSE]
    ELSE [g  |-> [g EXCEPT !.worktrees[repo] = @ \ { worktree_name }],
          ok |-> TRUE]

\* git::fetch_and_fast_forward: whether it returns Ok
fetch_and_fast_forward(g, repo, remote_ok) == repo \in g.cloned /\ remote_ok

\* ------------------------------------------------------------- commands
\* What a command leaves behind: its result and the stores it may write
Outcome(ok, g, dir_exists, stored) ==
    [ ticket_dir |-> dir_exists, stamp |-> stored, g |-> g, ok |-> ok ]

\* ---- setup (core/commands/setup.rs)
\* (variant: the given aliases are not checked against the registry)
setup_targets_unfiltered(repos, all, order) ==
    IF all THEN order ELSE repos

\* step 1: the target repositories
setup_targets(repos, all, order) ==
    IF all THEN order
    ELSE SelectSeq(repos, LAMBDA alias : alias \in repositories)

\* step 3: create or load the ticket directory and metadata
setup_stamp(description, branch_name, target_repos, order) ==
    LET repo_branches ==
            [i \in 1..Len(target_repos) |-> << target_repos[i], branch_name >>]
        created ==
            Some(TicketCreate(TicketId, description, branch_name,
                              repo_branches, order))
    IN  IF ~ticket_dir THEN created
        ELSE IF TicketLoad(stamp) = None THEN created
        ELSE add_repos_with_branch(
                 IF TicketLoad(stamp)[1].branch = << >>
                 THEN ensure_branch(stamp, branch_name) ELSE stamp,
                 target_repos, branch_name)

\* step 4: fetch, then create the worktree, repository by repository; the
\* first failure of either ends the run
RECURSIVE setup_worktrees(_, _, _, _)
setup_worktrees(g, target_repos, branch_name, remote_ok) ==
    IF target_repos = << >> THEN [g |-> g, ok |-> TRUE]
    ELSE LET alias == Head(target_repos) IN
         IF alias \notin repositories
         THEN setup_worktrees(g, Tail(target_repos), branch_name, remote_ok)
         ELSE IF ~fetch_and_fast_forward(g, alias, remote_ok)
         THEN [g |-> g, ok |-> FALSE]
         ELSE LET made == create_worktree(g, alias, branch_name, None) IN
              IF ~made.ok THEN made
              ELSE setup_worktrees(made.g, Tail(target_repos), branch_name,
                                   remote_ok)

setup_run(repos, all, description, order, key_order, remote_ok) ==
    LET target_repos == setup_targets(repos, all, order)
        branch_name  == build_branch_name(DEFAULT_BRANCH_PREFIX, TicketId,
                                          description)
        stored       == setup_stamp(description, branch_name, target_repos,
                                    key_order)
        made         == setup_worktrees(Git, target_repos, branch_name,
                                        remote_ok)
    IN  Outcome(made.ok, made.g, TRUE, stored)

\* ---- add (core/commands/add.rs)
\* (variant: the ticket's branch is preferred to the alias's own)
add_branch_name_ticket_first(metadata, repo_alias) ==
    IF metadata.branch # << >> THEN metadata.branch
    ELSE IF repo_alias \in DOMAIN metadata.repo_branches
    THEN metadata.repo_branches[repo_alias]
    ELSE build_branch_name(DEFAULT_BRANCH_PREFIX, metadata.id,
                           metadata.description)

add_branch_name(metadata, repo_alias) ==
    IF repo_alias \in DOMAIN metadata.repo_branches
    THEN metadata.repo_branches[repo_alias]
    ELSE IF metadata.branch # << >> THEN metadata.branch
    ELSE build_branch_name(DEFAULT_BRANCH_PREFIX, metadata.id,
                           metadata.description)

\* (variant: only a git working tree at the target path is refused)
add_refuses_worktree_only(dir) == dir.state \in { "clean", "dirty" }

\* (variant: no check of the target path)
add_refuses_never(dir) == FALSE

\* target_worktree.exists()
add_refuses(dir) == dir # Absent

\* (variant: the association is written before the worktree is created)
add_stamp_first(made_ok, repo_alias, branch_name) ==
    add_repo_branch(ensure_branch(stamp, branch_name), repo_alias, branch_name)

\* the metadata add leaves: written once create_worktree has returned Ok
add_stamp(made_ok, repo_alias, branch_name) ==
    IF made_ok
    THEN add_repo_branch(ensure_branch(stamp, branch_name), repo_alias,
                         branch_name)
    ELSE stamp

\* where add returns: the error it bails with, or "none"
add_error(repo_alias, base_ref) ==
    IF ~ticket_dir THEN "NoTicket"
    ELSE IF TicketLoad(stamp) = None THEN "NoMetadata"
    ELSE IF repo_alias \notin repositories THEN "NotRegistered"
    ELSE IF add_refuses(dirs[repo_alias]) THEN "AlreadyExists"
    ELSE IF ~create_worktree(Git, repo_alias,
                             add_branch_name(TicketLoad(stamp)[1], repo_alias),
                             base_ref).ok
    THEN "CreateFailed"
    ELSE "none"

add_run(repo_alias, base_ref) ==
    LET unchanged == Outcome(FALSE, Git, ticket_dir, stamp) IN
    IF ~ticket_dir \/ TicketLoad(stamp) = None THEN unchanged
    ELSE IF repo_alias \notin repositories THEN unchanged
    ELSE IF add_refuses(dirs[repo_alias]) THEN unchanged
    ELSE LET branch_name == add_branch_name(TicketLoad(stamp)[1], repo_alias)
             made == create_worktree(Git, repo_alias, branch_name, base_ref)
         IN  Outcome(made.ok, made.g, ticket_dir,
                     add_stamp(made.ok, repo_alias, branch_name))

\* ---- remove (core/commands/remove.rs)
\* the worktree name handed to remove_worktree
remove_worktree_name(metadata, repo_alias) ==
    LET branch_for_repo ==
            IF repo_alias \in DOMAIN metadata.repo_branches
            THEN metadata.repo_branches[repo_alias]
            ELSE build_worktree_name(DEFAULT_BRANCH_PREFIX, metadata.id,
                                     metadata.description)
    IN  IF repo_alias \in DOMAIN metadata.repo_worktrees
        THEN metadata.repo_worktrees[repo_alias]
        ELSE worktree_name_for_branch(branch_for_repo)

\* (variant: the arms of the match swapped)
remove_refuses_on_error(dir) == is_clean(dir) = "err"

\* the match on is_clean: only Ok(false) bails, an error is a warning
remove_refuses(dir) == is_clean(dir) = "false"

remove_run(repo_alias) ==
    LET unchanged == Outcome(FALSE, Git, ticket_dir, stamp) IN
    IF TicketLoad(stamp) = None THEN unchanged
    ELSE IF repo_alias \notin repositories THEN unchanged
    ELSE IF dirs[repo_alias] = Absent THEN unchanged
    ELSE IF remove_refuses(dirs[repo_alias]) THEN unchanged
    ELSE LET g1 == [Git EXCEPT !.dirs[repo_alias] = Absent]
             pruned == remove_worktree(
                           g1, repo_alias,
                           remove_worktree_name(TicketLoad(stamp)[1],
                                                repo_alias))
         IN  Outcome(TRUE, pruned.g, ticket_dir, remove_repo(stamp, repo_alias))

\* ---- destroy (core/commands/destroy.rs)
\* immediate subdirectories of the ticket other than .tix
SubDirs == { n \in Names : dirs[n] # Absent }

\* ... as read_dir lists them
worktree_dirs(order) == order

\* (variant: the directories are listed whether or not the metadata loads)
aliases_to_prune_dirs_only(dir_list, meta, key_order) == dir_list

\* (key_order: how the map lists its keys)
aliases_to_prune(dir_list, meta, key_order) ==
    IF meta # None THEN key_order ELSE dir_list

prune_branch(meta, alias) ==
    IF meta # None /\ alias \in DOMAIN meta[1].repo_branches
    THEN meta[1].repo_branches[alias]
    ELSE IF meta # None THEN meta[1].branch
    ELSE build_branch_name(DEFAULT_BRANCH_PREFIX, TicketId, None)

prune_worktree_name(meta, alias) ==
    IF meta # None /\ alias \in DOMAIN meta[1].repo_worktrees
    THEN meta[1].repo_worktrees[alias]
    ELSE worktree_name_for_branch(prune_branch(meta, alias))

\* (variant: an alias missing from the registry fails the pruning)
RECURSIVE prune_worktrees_strict(_, _, _)
prune_worktrees_strict(g, meta, aliases) ==
    IF aliases = << >> THEN [g |-> g, ok |-> TRUE]
    ELSE LET alias == Head(aliases) IN
         IF alias \notin repositories THEN [g |-> g, ok |-> FALSE]
         ELSE LET pruned == remove_worktree(g, alias,
                                            prune_worktree_name(meta, alias))
              IN  IF ~pruned.ok THEN pruned
                  ELSE prune_worktrees_strict(pruned.g, meta, Tail(aliases))

RECURSIVE prune_worktrees(_, _, _)
prune_worktrees(g, meta, aliases) ==
    IF aliases = << >> THEN [g |-> g, ok |-> TRUE]
    ELSE LET alias == Head(aliases) IN
         IF alias \notin repositories
         THEN prune_worktrees(g, meta, Tail(aliases))
         ELSE LET pruned == remove_worktree(g, alias,
                                            prune_worktree_name(meta, alias))
              IN  IF ~pruned.ok THEN pruned
                  ELSE prune_worktrees(pruned.g, meta, Tail(aliases))

\* (variant: a failed check counts as clean)
destroy_refuses_dirty_only(force, dir_list) ==
    ~force /\ \E n \in Range(dir_list) : is_clean(dirs[n]) = "false"

\* (variant: the check runs whatever the flag)
destroy_refuses_despite_force(force, dir_list) ==
    \E n \in Range(dir_list) : is_clean(dirs[n]) # "true"

\* the safety checks: unless forced, every directory must be found clean
destroy_refuses(force, dir_list) ==
    ~force /\ \E n \in Range(dir_list) : is_clean(dirs[n]) # "true"

\* (variant: the cwd is compared with the ticket root for equality)
ensure_not_inside_root_only(cwd) == cwd # "root"

\* ensure_not_inside: the canonical cwd starts with the canonical ticket root
ensure_not_inside(cwd) == cwd = "outside"

\* (variant: the ticket root is removed before the records are pruned)
destroy_run_root_first(force, cwd, order, key_order) ==
    IF ~ticket_dir THEN Outcome(TRUE, Git, ticket_dir, stamp)
    ELSE IF ~ensure_not_inside(cwd) THEN Outcome(FALSE, Git, ticket_dir, stamp)
    ELSE LET ticket_meta == TicketLoad(stamp)
             dir_list    == worktree_dirs(order)
             aliases     == aliases_to_prune(dir_list, ticket_meta, key_order)
         IN  IF destroy_refuses(force, dir_list)
             THEN Outcome(FALSE, Git, ticket_dir, stamp)
             ELSE LET g1 == [Git EXCEPT !.dirs = [n \in Names |-> Absent]]
                      pruned == prune_worktrees(g1, ticket_meta, aliases)
                  IN  Outcome(pruned.ok, pruned.g, FALSE, None)

destroy_run(force, cwd, order, key_order) ==
    IF ~ticket_dir THEN Outcome(TRUE, Git, ticket_dir, stamp)
    ELSE IF ~ensure_not_inside(cwd) THEN Outcome(FALSE, Git, ticket_dir, stamp)
    ELSE LET ticket_meta == TicketLoad(stamp)
             dir_list    == worktree_dirs(order)
             aliases     == aliases_to_prune(dir_list, ticket_meta, key_order)
         IN  IF destroy_refuses(force, dir_list)
             THEN Outcome(FALSE, Git, ticket_dir, stamp)
             ELSE LET g1 == [Git EXCEPT !.dirs = [n \in Names |-> Absent]]
                      pruned == prune_worktrees(g1, ticket_meta, aliases)
                  IN  IF ~pruned.ok
                      THEN Outcome(FALSE, pruned.g, ticket_dir, stamp)
                      ELSE Outcome(TRUE, pruned.g, FALSE, None)

\* ---- setup-repos (core/commands/setup_repos.rs): clone what is missing
compute_clone_plan == repositories \ cloned

\* ------------------------------------------------------------ the machine
\* alias lists a caller may give to setup
AliasLists == UNION { [1..n -> Names] : n \in 0..MaxRepos }

\* where the caller of destroy stands: outside the ticket, in its root, or
\* in one of its subdirectories
Cwds == IF ticket_dir THEN { "outside", "root" } \cup SubDirs
        ELSE { "outside" }

\* The remote gains nothing in the specifications of the commands, so the
\* fetch inside setup and add leaves every reference as it is.
Apply(out) ==
    /\ cloned' = out.g.cloned
    /\ branches' = out.g.branches
    /\ worktrees' = out.g.worktrees
    /\ dirs' = out.g.dirs
    /\ ticket_dir' = out.ticket_dir
    /\ stamp' = out.stamp
    /\ UNCHANGED << repositories, ref_vars, cred_vars, namer_vars,
                    race_vars, run_vars >>

\* nothing fetched since the clone, no credential session, no namer call
Synced ==
    /\ origin = [n \in { MainRef } |-> << 0, 0 >>]
    /\ tracking = [n \in { MainRef } |-> << 0, 0 >>]
    /\ head = "branch"
    /\ tip = << 0, 0 >>
    /\ tree = << 0, 0 >>
    /\ upstream = { MainRef }

Strategies == { "sshkey", "cred_helper", "git_command" }

NoSession ==
    /\ tried_sshkey = FALSE
    /\ tried_cred_helper = FALSE
    /\ tried_git_command = FALSE
    /\ attempts = [s \in Strategies |-> 0]
    /\ returned = 0
    /\ calls = 0
    /\ last = "none"

NoCall ==
    /\ given = None
    /\ derived = None

Invocations == { 1, 2 }

NoRace ==
    /\ pc = [p \in Invocations |-> "idle"]
    /\ held = [p \in Invocations |-> None]
    /\ wanted = [p \in Invocations |-> << >>]
    /\ overlap = FALSE

NoRun ==
    /\ running = "none"
    /\ rest = << >>
    /\ position = 1
    /\ log = << >>
    /\ run_branch = << >>
    /\ run_base = None

Blank ==
    /\ branches = [r \in Names |-> {}]
    /\ worktrees = [r \in Names |-> {}]
    /\ ticket_dir = FALSE
    /\ stamp = None
    /\ dirs = [n \in Names |-> Absent]

\* one registered repository, not cloned yet; "web" is no registered alias
Init ==
    /\ repositories = { "api" }
    /\ cloned = {}
    /\ Blank
    /\ Synced
    /\ NoSession
    /\ NoCall
    /\ NoRace
    /\ NoRun

\* two registered repositories, the second not cloned yet
InitMulti ==
    /\ repositories = { "api", "web" }
    /\ cloned = { "api" }
    /\ Blank
    /\ Synced
    /\ NoSession
    /\ NoCall
    /\ NoRace
    /\ NoRun

\* one invocation of each command, with its arguments and whatever else
\* decides its course
SetupStep(repos, all, description, order, key_order, remote_ok) ==
    Apply(setup_run(repos, all, description, order, key_order, remote_ok))

AddStep(repo_alias, base_ref) == Apply(add_run(repo_alias, base_ref))

RemoveStep(repo_alias) == Apply(remove_run(repo_alias))

DestroyStep(force, cwd, order, key_order) ==
    Apply(destroy_run(force, cwd, order, key_order))

\* the keys of the loaded metadata's repo_branches
StampKeys ==
    IF TicketLoad(stamp) = None THEN {}
    ELSE DOMAIN TicketLoad(stamp)[1].repo_branches

\* An enumeration order is drawn only where the command uses it: the
\* registry's order under --all, the order of the new map's keys when a
\* stamp is created, read_dir's order when destroy finds no metadata.
SetupInputs ==
    { in \in [ description : Descriptions, order : Orders(repositories),
               repos : AliasLists, remote_ok : BOOLEAN, all : BOOLEAN ] :
        /\ in.all => in.repos = << >>
        /\ ~in.all => in.order = SomeOrder(repositories)
        /\ setup_targets(in.repos, in.all, in.order) = << >> => in.remote_ok }

SetupKeyOrders(in) ==
    LET keys == Range(setup_targets(in.repos, in.all, in.order)) IN
    IF TicketLoad(stamp) = None THEN Orders(keys) ELSE { SomeOrder(keys) }

DestroyOrders ==
    IF TicketLoad(stamp) = None THEN Orders(SubDirs)
    ELSE { SomeOrder(SubDirs) }

Setup ==
    \E in \in SetupInputs :
      \E key_order \in SetupKeyOrders(in) :
        SetupStep(in.repos, in.all, in.description, in.order, key_order,
                  in.remote_ok)

Add == \E repo_alias \in Names, base_ref \in BaseRefs :
         AddStep(repo_alias, base_ref)

Remove == \E repo_alias \in Names : RemoveStep(repo_alias)

Destroy ==
    \E force \in BOOLEAN, cwd \in Cwds,
       order \in DestroyOrders, key_order \in Orders(StampKeys) :
      DestroyStep(force, cwd, order, key_order)

\* setup-repos: every missing repository is cloned, each clone may fail
SetupRepos ==
    \E done \in SUBSET compute_clone_plan :
      /\ cloned' = cloned \cup done
      /\ UNCHANGED << repositories, branches, worktrees, ticket_dir, stamp,
                      dirs,
                      ref_vars, cred_vars, namer_vars, race_vars, run_vars >>

\* ---- what the user does to the ticket directory between invocations
\* edit, stage or add a file in a worktree
Edit ==
    \E n \in Names :
      /\ dirs[n].state = "clean"
      /\ dirs' = [dirs EXCEPT ![n].state = "dirty"]
      /\ UNCHANGED << repositories, cloned, branches, worktrees, ticket_dir,
                      stamp,
                      ref_vars, cred_vars, namer_vars, race_vars, run_vars >>

\* commit or discard the changes of a worktree
Tidy ==
    \E n \in Names :
      /\ dirs[n].state = "dirty"
      /\ dirs' = [dirs EXCEPT ![n].state = "clean"]
      /\ UNCHANGED << repositories, cloned, branches, worktrees, ticket_dir,
                      stamp,
                      ref_vars, cred_vars, namer_vars, race_vars, run_vars >>

\* delete a subdirectory of the ticket by hand
DeleteDir ==
    \E n \in Names :
      /\ dirs[n] # Absent
      /\ dirs' = [dirs EXCEPT ![n] = Absent]
      /\ UNCHANGED << repositories, cloned, branches, worktrees, ticket_dir,
                      stamp,
                      ref_vars, cred_vars, namer_vars, race_vars, run_vars >>

\* create a plain subdirectory in the ticket by hand
MakeDir ==
    \E n \in Names :
      /\ ticket_dir
      /\ dirs[n] = Absent
      /\ dirs' = [dirs EXCEPT ![n] = Plain]
      /\ UNCHANGED << repositories, cloned, branches, worktrees, ticket_dir,
                      stamp,
                      ref_vars, cred_vars, namer_vars, race_vars, run_vars >>

\* lose the stamp (.tix removed or made unreadable)
DeleteStamp ==
    /\ stamp # None
    /\ stamp' = None
    /\ UNCHANGED << repositories, cloned, branches, worktrees, ticket_dir,
                    dirs,
                    ref_vars, cred_vars, namer_vars, race_vars, run_vars >>

Next ==
    \/ Setup
    \/ Add
    \/ Remove
    \/ Destroy
    \/ SetupRepos
    \/ Edit
    \/ Tidy
    \/ DeleteDir
    \/ MakeDir
    \/ DeleteStamp

\* one registered repository, every disturbance of the ticket directory
Spec == Init /\ [][Next]_vars

NextMulti ==
    \/ Setup
    \/ Add
    \/ Remove
    \/ Destroy
    \/ SetupRepos
    \/ Edit
    \/ Tidy
    \/ DeleteDir

\* two registered repositories, worktrees edited or deleted by hand
SpecMulti == InitMulti /\ [][NextMulti]_vars

\* ---- the metadata store on its own (core/ticket.rs)
\* branch names handed to the store
StoreBranches ==
    { build_branch_name(DEFAULT_BRANCH_PREFIX, TicketId, description) :
        description \in Descriptions }

\* alias lists without repetition
DistinctLists == UNION { Orders(S) : S \in SUBSET Names }

\* Records an older version wrote: branch, repos and repo_branches are
\* #[serde(default)], so a stamp may lack the branch, and lists its aliases
\* in repos alone.
LegacyRecords ==
    { [ description    |-> description,
        branch         |-> branch,
        id             |-> TicketId,
        repo_branches  |-> EmptyMap,
        repos          |-> repos,
        repo_worktrees |-> EmptyMap ] :
        description \in Descriptions,
        branch \in { << >>, build_branch_name(DEFAULT_BRANCH_PREFIX,
                                               TicketId, None) },
        repos \in DistinctLists }

\* a ticket directory holding no stamp or a legacy one; both repositories
\* are registered and cloned
InitStore ==
    /\ repositories = { "api", "web" }
    /\ cloned = { "api", "web" }
    /\ branches = [r \in Names |-> {}]
    /\ worktrees = [r \in Names |-> {}]
    /\ dirs = [n \in Names |-> Absent]
    /\ ticket_dir = TRUE
    /\ stamp \in { None } \cup { Some(m) : m \in LegacyRecords }
    /\ Synced
    /\ NoSession
    /\ NoCall
    /\ NoRace
    /\ NoRun

StoreStep(stored) ==
    /\ stamp' = stored
    /\ UNCHANGED << repositories, cloned, branches, worktrees, ticket_dir,
                    dirs,
                    ref_vars, cred_vars, namer_vars, race_vars, run_vars >>

\* Ticket::create with the pairs (alias, branch) of an alias list
Create ==
    \E repos \in AliasLists, description \in Descriptions,
       default_branch \in StoreBranches, branch \in StoreBranches :
      \E order \in Orders(Range(repos)) :
        StoreStep(Some(TicketCreate(
            TicketId, description, default_branch,
            [i \in 1..Len(repos) |-> << repos[i], branch >>], order)))

\* the updating operations load the stamp first and fail without one
AddReposWithBranch ==
    \E repos \in AliasLists, branch \in StoreBranches :
      /\ stamp # None
      /\ StoreStep(add_repos_with_branch(stamp, repos, branch))

AddRepoBranch ==
    \E repo \in Names, branch \in StoreBranches :
      /\ stamp # None
      /\ StoreStep(add_repo_branch(stamp, repo, branch))

RemoveRepo ==
    \E repo \in Names :
      /\ stamp # None
      /\ StoreStep(remove_repo(stamp, repo))

EnsureBranch ==
    \E branch \in StoreBranches :
      /\ stamp # None
      /\ StoreStep(ensure_branch(stamp, branch))

NextStore ==
    \/ Create
    \/ AddReposWithBranch
    \/ AddRepoBranch
    \/ RemoveRepo
    \/ EnsureBranch
    \/ Add

\* the store's operations in any order, and add on top of them
SpecStore == InitStore /\ [][NextStore]_vars

\* ---- the git engine on the repository "api" (core/git.rs)
\* a is b or an ancestor of b
Ancestor(a, b) ==
    \/ a[2] = 0 /\ a[1] <= b[1]
    \/ a[1] = b[1] /\ a[2] <= b[2]

\* Repository::merge_analysis of HEAD at ours against the commit theirs
merge_analysis(ours, theirs) ==
    IF Ancestor(theirs, ours) THEN "up_to_date"
    ELSE IF Ancestor(ours, theirs) THEN "fast_forward"
    ELSE "normal"

\* the references fetch_and_fast_forward reads and writes
Refs ==
    [ origin |-> origin, tracking |-> tracking, head |-> head, tip |-> tip,
      tree |-> tree, upstream |-> upstream ]

\* remote.fetch with refs/heads/*:refs/remotes/origin/*
fetch(refs) ==
    [refs EXCEPT !.tracking =
        [n \in DOMAIN refs.tracking \cup DOMAIN refs.origin |->
           IF n \in DOMAIN refs.origin THEN refs.origin[n]
           ELSE refs.tracking[n]]]

\* (variant: the branch is set to its upstream whenever they differ)
fetch_and_reset_refs(refs, remote_ok) ==
    IF ~remote_ok THEN [ok |-> FALSE, refs |-> refs]
    ELSE LET fetched == fetch(refs) IN
         IF fetched.head # "branch" THEN [ok |-> TRUE, refs |-> fetched]
         ELSE IF MainRef \notin fetched.upstream
         THEN [ok |-> TRUE, refs |-> fetched]
         ELSE [ok   |-> TRUE,
               refs |-> [fetched EXCEPT !.tip = fetched.tracking[MainRef],
                                        !.tree = fetched.tracking[MainRef]]]

\* git::fetch_and_fast_forward on an opened repository with its remote: the
\* references it leaves, and whether it returns Ok
fetch_and_fast_forward_refs(refs, remote_ok) ==
    IF ~remote_ok THEN [ok |-> FALSE, refs |-> refs]
    ELSE LET fetched == fetch(refs) IN
         IF fetched.head # "branch" THEN [ok |-> TRUE, refs |-> fetched]
         ELSE IF MainRef \notin fetched.upstream
         THEN [ok |-> TRUE, refs |-> fetched]
         ELSE LET upstream_oid == fetched.tracking[MainRef]
                  analysis == merge_analysis(fetched.tip, upstream_oid)
              IN  IF analysis = "up_to_date"
                  THEN [ok |-> TRUE, refs |-> fetched]
                  ELSE IF analysis = "fast_forward"
                  THEN [ok   |-> TRUE,
                        refs |-> [fetched EXCEPT !.tip = upstream_oid,
                                                 !.tree = upstream_oid]]
                  ELSE [ok |-> TRUE, refs |-> fetched]

\* ---- the base of a new branch (create_worktree, case B)
\* revisions as create_worktree meets them: HEAD, the full name of the
\* local main, and the remote-tracking main
HeadRef == << "H","E","A","D" >>
HeadsMain == << "r","e","f","s","/","h","e","a","d","s","/","m","a","i","n" >>
OriginMain == << "o","r","i","g","i","n","/","m","a","i","n" >>

\* repo.head(): the reference HEAD resolves to and its commit; an error
\* (None) while HEAD is unborn, as in the clone of an empty remote
head_name(refs) ==
    IF refs.head = "unborn" THEN None
    ELSE IF refs.head = "branch" THEN Some(HeadsMain)
    ELSE Some(HeadRef)

head_commit(refs) ==
    IF refs.head = "unborn" THEN None
    ELSE IF refs.head = "branch" THEN Some(refs.tip)
    ELSE Some(refs.tree)

\* revparse_single(rev).peel_to_commit(): None when nothing has that name
revparse_single(refs, rev) ==
    IF rev = HeadRef THEN head_commit(refs)
    ELSE IF refs.head = "unborn" THEN None
    ELSE IF rev \in { MainRef, HeadsMain } THEN Some(refs.tip)
    ELSE IF rev = OriginMain /\ MainRef \in DOMAIN refs.tracking
    THEN Some(refs.tracking[MainRef])
    ELSE None

\* resolve_default_branch (remote_head: what remote.default_branch()
\* answers, None for an error)
resolve_default_branch(refs, remote_head) ==
    IF remote_head # None THEN remote_head ELSE head_name(refs)

\* get_base_commit
get_base_commit(refs, base) ==
    IF base # None THEN revparse_single(refs, base[1]) ELSE head_commit(refs)

\* (variant: the default branch is preferred to the explicit base)
base_commit_default_first(refs, base_ref, remote_head) ==
    LET default == resolve_default_branch(refs, remote_head) IN
    get_base_commit(refs, IF default # None THEN default ELSE base_ref)

\* create_worktree, case B: the commit the new branch is created at
base_commit(refs, base_ref, remote_head) ==
    LET default == resolve_default_branch(refs, remote_head) IN
    get_base_commit(refs, IF base_ref # None THEN base_ref ELSE default)

\* the repository cloned, no worktree registered on it yet; the parent of
\* the target path exists and holds no metadata
InitGit ==
    /\ repositories = { "api" }
    /\ cloned = { "api" }
    /\ branches = [r \in Names |-> {}]
    /\ worktrees = [r \in Names |-> {}]
    /\ dirs = [n \in Names |-> Absent]
    /\ ticket_dir = TRUE
    /\ stamp = None
    /\ Synced
    /\ NoSession
    /\ NoCall
    /\ NoRace
    /\ NoRun

\* someone pushes a commit to the remote's main
Push ==
    /\ origin[MainRef][1] < MaxCommits
    /\ origin' = [origin EXCEPT ![MainRef] = << @[1] + 1, 0 >>]
    /\ UNCHANGED << tracking, head, tip, tree, upstream,
                    ticket_vars, cred_vars, namer_vars, race_vars, run_vars >>

\* someone pushes a ticket branch to the remote
PushBranch ==
    \E b \in StoreBranches :
      /\ b \notin DOMAIN origin
      /\ origin' = [n \in DOMAIN origin \cup { b } |->
                      IF n = b THEN << 0, 0 >> ELSE origin[n]]
      /\ UNCHANGED << tracking, head, tip, tree, upstream,
                      ticket_vars, cred_vars, namer_vars, race_vars, run_vars >>

\* a commit made on main in the source repository itself
Commit ==
    /\ head = "branch"
    /\ tip[2] < MaxLocal
    /\ tip' = << tip[1], tip[2] + 1 >>
    /\ tree' = tip'
    /\ UNCHANGED << origin, tracking, head, upstream,
                    ticket_vars, cred_vars, namer_vars, race_vars, run_vars >>

\* git checkout --detach, and git checkout main
Detach ==
    /\ head = "branch"
    /\ head' = "detached"
    /\ UNCHANGED << origin, tracking, tip, tree, upstream,
                    ticket_vars, cred_vars, namer_vars, race_vars, run_vars >>

Attach ==
    /\ head = "detached"
    /\ head' = "branch"
    /\ tree' = tip
    /\ UNCHANGED << origin, tracking, tip, upstream,
                    ticket_vars, cred_vars, namer_vars, race_vars, run_vars >>

\* git branch --unset-upstream, and --set-upstream-to origin/main
UnsetUpstream ==
    /\ MainRef \in upstream
    /\ upstream' = upstream \ { MainRef }
    /\ UNCHANGED << origin, tracking, head, tip, tree,
                    ticket_vars, cred_vars, namer_vars, race_vars, run_vars >>

SetUpstream ==
    /\ MainRef \notin upstream
    /\ upstream' = upstream \cup { MainRef }
    /\ UNCHANGED << origin, tracking, head, tip, tree,
                    ticket_vars, cred_vars, namer_vars, race_vars, run_vars >>

FetchStep(remote_ok) ==
    LET out == fetch_and_fast_forward_refs(Refs, remote_ok) IN
    /\ tracking' = out.refs.tracking
    /\ tip' = out.refs.tip
    /\ tree' = out.refs.tree
    /\ UNCHANGED << origin, head, upstream,
                    ticket_vars, cred_vars, namer_vars, race_vars, run_vars >>

Fetch == \E remote_ok \in BOOLEAN : FetchStep(remote_ok)

\* create_worktree(api, <ticket>/api, branch_name, base_ref), called directly
CreateWorktreeStep(branch_name, base_ref) ==
    LET made == create_worktree(Git, "api", branch_name, base_ref) IN
    /\ branches' = made.g.branches
    /\ worktrees' = made.g.worktrees
    /\ dirs' = made.g.dirs
    /\ UNCHANGED << repositories, cloned, ticket_dir, stamp,
                    ref_vars, cred_vars, namer_vars, race_vars, run_vars >>

CreateWorktree ==
    \E branch_name \in StoreBranches, base_ref \in BaseRefs :
      CreateWorktreeStep(branch_name, base_ref)

\* remove_worktree(api, worktree_name), called directly
RemoveWorktree ==
    \E b \in StoreBranches :
      LET out == remove_worktree(Git, "api", worktree_name_for_branch(b)) IN
      /\ worktrees' = out.g.worktrees
      /\ UNCHANGED << repositories, cloned, branches, dirs, ticket_dir,
                      stamp, ref_vars, cred_vars, namer_vars,
                      race_vars, run_vars >>

NextGit ==
    \/ Push
    \/ PushBranch
    \/ Commit
    \/ Detach
    \/ Attach
    \/ UnsetUpstream
    \/ SetUpstream
    \/ Fetch
    \/ CreateWorktree
    \/ RemoveWorktree
    \/ DeleteDir

SpecGit == InitGit /\ [][NextGit]_vars

\* ---- one credential session (core/git.rs, create_git_callbacks)
\* no registered repository, no ticket
Bare ==
    /\ repositories = {}
    /\ cloned = {}
    /\ Blank

\* what the backend may ask for
CredentialKinds == { "ssh_key", "user_pass_plaintext", "username" }

\* the flags the closure has captured
Session ==
    [ tried_sshkey |-> tried_sshkey, tried_cred_helper |-> tried_cred_helper,
      tried_git_command |-> tried_git_command ]

Answer(result, s, attempted) ==
    [ s |-> s, result |-> result, attempted |-> attempted ]

\* (variant: the helper lookup is not marked as tried)
credentials_unmarked(s, allowed_types, agent_ok, helper_ok, command_ok) ==
    LET ssh == "ssh_key" \in allowed_types /\ ~s.tried_sshkey
        s1 == IF ssh THEN [s EXCEPT !.tried_sshkey = TRUE] ELSE s
        a1 == IF ssh THEN { "sshkey" } ELSE {}
    IN  IF ssh /\ agent_ok THEN Answer("cred", s1, a1)
        ELSE
        LET helper == /\ allowed_types
                           \cap { "user_pass_plaintext", "username" } # {}
                      /\ ~s1.tried_cred_helper
            a2 == IF helper THEN a1 \cup { "cred_helper" } ELSE a1
        IN  IF helper /\ helper_ok THEN Answer("cred", s1, a2)
            ELSE
            LET command == helper /\ ~s1.tried_git_command
                s3 == IF command THEN [s1 EXCEPT !.tried_git_command = TRUE]
                      ELSE s1
                a3 == IF command THEN a2 \cup { "git_command" } ELSE a2
            IN  IF command /\ command_ok THEN Answer("cred", s3, a3)
                ELSE Answer("error", s3, a3)

\* (variant: the agent is asked on every invocation)
credentials_retrying(s, allowed_types, agent_ok, helper_ok, command_ok) ==
    LET ssh == "ssh_key" \in allowed_types
        s1 == IF ssh THEN [s EXCEPT !.tried_sshkey = TRUE] ELSE s
        a1 == IF ssh THEN { "sshkey" } ELSE {}
    IN  IF ssh /\ agent_ok THEN Answer("cred", s1, a1)
        ELSE
        LET helper == /\ allowed_types
                           \cap { "user_pass_plaintext", "username" } # {}
                      /\ ~s1.tried_cred_helper
            s2 == IF helper THEN [s1 EXCEPT !.tried_cred_helper = TRUE]
                  ELSE s1
            a2 == IF helper THEN a1 \cup { "cred_helper" } ELSE a1
        IN  IF helper /\ helper_ok THEN Answer("cred", s2, a2)
            ELSE
            LET command == helper /\ ~s2.tried_git_command
                s3 == IF command THEN [s2 EXCEPT !.tried_git_command = TRUE]
                      ELSE s2
                a3 == IF command THEN a2 \cup { "git_command" } ELSE a2
            IN  IF command /\ command_ok THEN Answer("cred", s3, a3)
                ELSE Answer("error", s3, a3)

\* (variant: the helper and the external fill are asked before the agent)
credentials_helper_first(s, allowed_types, agent_ok, helper_ok, command_ok) ==
    LET helper == /\ allowed_types
                       \cap { "user_pass_plaintext", "username" } # {}
                  /\ ~s.tried_cred_helper
        s1 == IF helper THEN [s EXCEPT !.tried_cred_helper = TRUE] ELSE s
        a1 == IF helper THEN { "cred_helper" } ELSE {}
    IN  IF helper /\ helper_ok THEN Answer("cred", s1, a1)
        ELSE
        LET command == helper /\ ~s1.tried_git_command
            s2 == IF command THEN [s1 EXCEPT !.tried_git_command = TRUE]
                  ELSE s1
            a2 == IF command THEN a1 \cup { "git_command" } ELSE a1
        IN  IF command /\ command_ok THEN Answer("cred", s2, a2)
            ELSE
            LET ssh == "ssh_key" \in allowed_types /\ ~s2.tried_sshkey
                s3 == IF ssh THEN [s2 EXCEPT !.tried_sshkey = TRUE] ELSE s2
                a3 == IF ssh THEN a2 \cup { "sshkey" } ELSE a2
            IN  IF ssh /\ agent_ok THEN Answer("cred", s3, a3)
                ELSE Answer("error", s3, a3)

\* the closure given to callbacks.credentials: one invocation.  agent_ok,
\* helper_ok, command_ok: whether the agent, the helper lookup and `git
\* credential fill` would yield a credential if asked.  The result is "cred"
\* or the authentication error with its guidance.
credentials(s, allowed_types, agent_ok, helper_ok, command_ok) ==
    LET ssh == "ssh_key" \in allowed_types /\ ~s.tried_sshkey
        s1 == IF ssh THEN [s EXCEPT !.tried_sshkey = TRUE] ELSE s
        a1 == IF ssh THEN { "sshkey" } ELSE {}
    IN  IF ssh /\ agent_ok THEN Answer("cred", s1, a1)
        ELSE
        LET helper == /\ allowed_types
                           \cap { "user_pass_plaintext", "username" } # {}
                      /\ ~s1.tried_cred_helper
            s2 == IF helper THEN [s1 EXCEPT !.tried_cred_helper = TRUE]
                  ELSE s1
            a2 == IF helper THEN a1 \cup { "cred_helper" } ELSE a1
        IN  IF helper /\ helper_ok THEN Answer("cred", s2, a2)
            ELSE
            LET command == helper /\ ~s2.tried_git_command
                s3 == IF command THEN [s2 EXCEPT !.tried_git_command = TRUE]
                      ELSE s2
                a3 == IF command THEN a2 \cup { "git_command" } ELSE a2
            IN  IF command /\ command_ok THEN Answer("cred", s3, a3)
                ELSE Answer("error", s3, a3)

InitCred ==
    /\ Bare
    /\ Synced
    /\ NoSession
    /\ NoCall
    /\ NoRace
    /\ NoRun

\* create_git_callbacks: a fetch or a clone begins, with fresh flags
NewSession ==
    /\ calls > 0
    /\ tried_sshkey' = FALSE
    /\ tried_cred_helper' = FALSE
    /\ tried_git_command' = FALSE
    /\ attempts' = [s \in Strategies |-> 0]
    /\ returned' = 0
    /\ calls' = 0
    /\ last' = "none"
    /\ UNCHANGED << ticket_vars, ref_vars, namer_vars, race_vars, run_vars >>

\* the backend invokes the callback, for the first time or once more
Callback ==
    \E allowed_types \in SUBSET CredentialKinds,
       agent_ok \in BOOLEAN, helper_ok \in BOOLEAN, command_ok \in BOOLEAN :
      LET out == credentials(Session, allowed_types, agent_ok, helper_ok,
                             command_ok)
      IN  /\ calls < MaxCalls
          /\ tried_sshkey' = out.s.tried_sshkey
          /\ tried_cred_helper' = out.s.tried_cred_helper
          /\ tried_git_command' = out.s.tried_git_command
          /\ attempts' = [s \in Strategies |->
                            IF s \in out.attempted THEN attempts[s] + 1
                            ELSE attempts[s]]
          /\ returned' = IF out.result = "cred" THEN returned + 1
                         ELSE returned
          /\ calls' = calls + 1
          /\ last' = out.result
          /\ UNCHANGED << ticket_vars, ref_vars, namer_vars,
                          race_vars, run_vars >>

NextCred ==
    \/ NewSession
    \/ Callback

SpecCred == InitCred /\ [][NextCred]_vars

\* ---- the branch namer on its own (core/commands/common.rs)
\* characters of a description: letters of either case, a digit, separators,
\* and an uppercase letter outside ASCII
NamerChars == { "A", "b", "1", " ", "-", "U+00C9" }

Texts == UNION { [1..n -> NamerChars] : n \in 0..MaxLen }

\* a ticket id that is lower case by itself
LowerTicketId == << "j","-","1" >>

NamerInputs ==
    [ ticket_id : { LowerTicketId },
      description : { None } \cup { Some(text) : text \in Texts } ]

InitNamer ==
    /\ Bare
    /\ Synced
    /\ NoSession
    /\ given \in NamerInputs
    /\ derived = None
    /\ NoRace
    /\ NoRun

\* build_branch_name(&config, ticket_id, description) with the default prefix
Derive ==
    /\ derived = None
    /\ derived' = Some(build_branch_name(DEFAULT_BRANCH_PREFIX,
                                         given.ticket_id, given.description))
    /\ UNCHANGED << given, ticket_vars, ref_vars, cred_vars, race_vars,
                    run_vars >>

NextNamer == Derive

SpecNamer == InitNamer /\ [][NextNamer]_vars

\* ---- two invocations updating one stamp (core/ticket.rs)
\* Each invocation is a process of its own running add_repos_with_branch
\* or add_repo_branch for one alias: Ticket::load, then the change of the
\* loaded record and write_metadata. Nothing locks the file in between.
target(p) == IF p = 1 THEN "api" ELSE "web"

\* (variant: the stamp is read again under the write, as under a lock)
persist_update_merging(stored, metadata, repo, branch) ==
    Some(add_each(TicketLoad(stored)[1], << repo >>, branch))

\* the record an invocation writes: the one it loaded, with its alias
persist_update(stored, metadata, repo, branch) ==
    Some(add_each(metadata, << repo >>, branch))

\* an existing ticket without aliases; each invocation has its branch
InitRace ==
    /\ repositories = { "api", "web" }
    /\ cloned = { "api", "web" }
    /\ branches = [r \in Names |-> {}]
    /\ worktrees = [r \in Names |-> {}]
    /\ dirs = [n \in Names |-> Absent]
    /\ ticket_dir = TRUE
    /\ stamp \in { Some(TicketCreate(TicketId, description, default_branch,
                                     << >>, << >>)) :
                      description \in Descriptions,
                      default_branch \in StoreBranches }
    /\ Synced
    /\ NoSession
    /\ NoCall
    /\ pc = [p \in Invocations |-> "idle"]
    /\ held = [p \in Invocations |-> None]
    /\ wanted \in [Invocations -> StoreBranches]
    /\ overlap = FALSE
    /\ NoRun

\* let mut ticket = Ticket::load(root)?
Load ==
    \E p \in Invocations :
      /\ pc[p] = "idle"
      /\ held' = [held EXCEPT ![p] = TicketLoad(stamp)]
      /\ pc' = [pc EXCEPT ![p] = "loaded"]
      /\ overlap' = (overlap \/ \E q \in Invocations \ { p } :
                                  pc[q] = "loaded")
      /\ UNCHANGED << wanted, ticket_vars, ref_vars, cred_vars, namer_vars,
                      run_vars >>

\* the alias is entered in the loaded record, write_metadata persists it
Write ==
    \E p \in Invocations :
      /\ pc[p] = "loaded"
      /\ stamp' = persist_update(stamp, held[p][1], target(p), wanted[p])
      /\ pc' = [pc EXCEPT ![p] = "done"]
      /\ UNCHANGED << repositories, cloned, branches, worktrees, ticket_dir,
                      dirs, held, wanted, overlap,
                      ref_vars, cred_vars, namer_vars, run_vars >>

NextRace ==
    \/ Load
    \/ Write

SpecRace == InitRace /\ [][NextRace]_vars

\* ---- a run of setup or add, call by call (setup.rs:98-125, add.rs:62-84)
\* (variant: the worktree is created before the repository is updated)
loop_body_swapped == << "create_worktree", "fetch" >>

\* the backend calls made for each alias, in the order of the code
loop_body == << "fetch", "create_worktree" >>

\* two registered repositories, both cloned; no run
InitRun ==
    /\ repositories = { "api", "web" }
    /\ cloned = { "api", "web" }
    /\ Blank
    /\ Synced
    /\ NoSession
    /\ NoCall
    /\ NoRace
    /\ NoRun

\* setup up to its loop: the targets, the branch name, the metadata
BeginSetup ==
    \E in \in SetupInputs :
      \E key_order \in SetupKeyOrders(in) :
        LET target_repos == setup_targets(in.repos, in.all, in.order)
            branch_name == build_branch_name(DEFAULT_BRANCH_PREFIX, TicketId,
                                             in.description)
        IN  /\ running = "none"
            /\ in.remote_ok
            /\ ticket_dir' = TRUE
            /\ stamp' = setup_stamp(in.description, branch_name,
                                    target_repos, key_order)
            /\ running' = IF target_repos = << >> THEN "none" ELSE "setup"
            /\ rest' = target_repos
            /\ position' = 1
            /\ log' = << >>
            /\ run_branch' = branch_name
            /\ run_base' = None
            /\ UNCHANGED << repositories, cloned, branches, worktrees, dirs,
                            ref_vars, cred_vars, namer_vars, race_vars >>

\* add up to its fetch: the checks it returns from, the branch name
BeginAdd ==
    \E repo_alias \in Names, base_ref \in BaseRefs :
      /\ running = "none"
      /\ ticket_dir
      /\ TicketLoad(stamp) # None
      /\ repo_alias \in repositories
      /\ ~add_refuses(dirs[repo_alias])
      /\ running' = "add"
      /\ rest' = << repo_alias >>
      /\ position' = 1
      /\ log' = << >>
      /\ run_branch' = add_branch_name(TicketLoad(stamp)[1], repo_alias)
      /\ run_base' = base_ref
      /\ UNCHANGED << ticket_vars, ref_vars, cred_vars, namer_vars,
                      race_vars >>

\* where the run goes after a call: it returns on a fatal error, makes the
\* next call for the same alias, or is through with the alias; add then
\* records the association and returns, setup takes the next alias
Proceed(fatal, alias) ==
    IF fatal
    THEN /\ running' = "none"
         /\ rest' = << >>
         /\ position' = 1
         /\ stamp' = stamp
    ELSE IF position < Len(loop_body)
    THEN /\ running' = running
         /\ rest' = rest
         /\ position' = position + 1
         /\ stamp' = stamp
    ELSE IF running = "add"
    THEN /\ running' = "none"
         /\ rest' = << >>
         /\ position' = 1
         /\ stamp' = add_stamp(TRUE, alias, run_branch)
    ELSE /\ running' = IF Len(rest) = 1 THEN "none" ELSE "setup"
         /\ rest' = Tail(rest)
         /\ position' = 1
         /\ stamp' = stamp

\* git::fetch_and_fast_forward for the current alias: an error ends setup
\* (`?`) and is dropped by add (`.ok()`)
RunFetch ==
    \E remote_ok \in BOOLEAN :
      /\ running # "none"
      /\ loop_body[position] = "fetch"
      /\ log' = Append(log, << "fetch", Head(rest) >>)
      /\ Proceed(/\ running = "setup"
                 /\ ~fetch_and_fast_forward(Git, Head(rest), remote_ok),
                 Head(rest))
      /\ UNCHANGED << repositories, cloned, branches, worktrees, ticket_dir,
                      dirs, run_branch, run_base,
                      ref_vars, cred_vars, namer_vars, race_vars >>

\* git::create_worktree for the current alias: an error ends the run
RunCreate ==
    LET made == create_worktree(Git, Head(rest), run_branch, run_base) IN
    /\ running # "none"
    /\ loop_body[position] = "create_worktree"
    /\ log' = Append(log, << "create_worktree", Head(rest) >>)
    /\ branches' = made.g.branches
    /\ worktrees' = made.g.worktrees
    /\ dirs' = made.g.dirs
    /\ Proceed(~made.ok, Head(rest))
    /\ UNCHANGED << repositories, cloned, ticket_dir, run_branch, run_base,
                    ref_vars, cred_vars, namer_vars, race_vars >>

NextRun ==
    \/ BeginSetup
    \/ BeginAdd
    \/ RunFetch
    \/ RunCreate

\* runs of setup and add one after the other, each call a step
SpecRun == InitRun /\ [][NextRun]_vars

\* ---------------------------------------------------------------- claims
\* the loaded metadata, and whether a command left every store as it was
Meta == TicketLoad(stamp)

Same(out) ==
    /\ out.g = Git
    /\ out.ticket_dir = ticket_dir
    /\ out.stamp = stamp

IsWorktree(dir) == dir.state \in { "clean", "dirty" }

\* ---- C1
\* C1: the backend worktree name registered when setup or add made the
\* worktree of alias a on branch b (b with every "/" replaced by "_") is the
\* name a later remove(a) or destroy hands to remove_worktree, so that a
\* successful remove(a) or destroy leaves no record of that worktree.
C1_PruneUsesCreatedName ==
    \A a \in repositories :
      (ticket_dir /\ Meta # None /\ IsWorktree(dirs[a])) =>
        LET created == replace(dirs[a].branch, "/", "_") IN
        /\ remove_worktree_name(Meta[1], a) = created
        /\ prune_worktree_name(Meta, a) = created
        /\ remove_run(a).ok => created \notin remove_run(a).g.worktrees[a]
        /\ \A force \in BOOLEAN, order \in DestroyOrders,
              key_order \in Orders(StampKeys) :
             LET out == destroy_run(force, "outside", order, key_order) IN
             out.ok => created \notin out.g.worktrees[a]

\* ---- C2
\* C2: a destroy invoked from outside the ticket that returns success leaves
\* neither the ticket directory nor a backend worktree record of any alias
\* listed in the metadata, also when a worktree directory was deleted by hand.
C2_DestroyLeavesNoRecord ==
    (ticket_dir /\ Meta # None) =>
      \A force \in BOOLEAN, order \in DestroyOrders,
         key_order \in Orders(StampKeys) :
        LET out == destroy_run(force, "outside", order, key_order) IN
        out.ok =>
          /\ ~out.ticket_dir
          /\ \A a \in StampKeys \cap Names : out.g.worktrees[a] = {}

\* ---- C3
\* C3: destroy invoked with the working directory at the ticket root or
\* anywhere below it fails and changes nothing.
C3_InsideRefused ==
    \A force \in BOOLEAN, cwd \in Cwds \ { "outside" },
       order \in DestroyOrders, key_order \in Orders(StampKeys) :
      LET out == destroy_run(force, cwd, order, key_order) IN
      ~out.ok /\ Same(out)

\* a stamped ticket with a worktree below which the caller may stand, and
\* which destroy would remove when called from outside
C3_Witness ==
    /\ ticket_dir
    /\ Meta # None
    /\ \E n \in Names :
         /\ dirs[n].state = "clean"
         /\ n \in Cwds
    /\ \E order \in DestroyOrders, key_order \in Orders(StampKeys) :
         destroy_run(FALSE, "outside", order, key_order).ok

\* ---- C4
\* C4: without force, destroy removes nothing unless every worktree directory
\* is found clean: one that is dirty, or whose cleanliness cannot be checked,
\* makes the whole operation fail with every directory, the metadata and the
\* backend records as they were.
C4_UncleanBlocksDestroy ==
    (ticket_dir /\ \E n \in SubDirs : dirs[n].state \in { "dirty", "plain" }) =>
      \A cwd \in Cwds, order \in DestroyOrders,
         key_order \in Orders(StampKeys) :
        LET out == destroy_run(FALSE, cwd, order, key_order) IN
        ~out.ok /\ Same(out)

\* a clean worktree next to a directory whose cleanliness cannot be checked
C4_Witness ==
    /\ ticket_dir
    /\ \E n, m \in SubDirs :
         /\ dirs[n].state = "clean"
         /\ dirs[m].state = "plain"

PruneTargets(order, key_order) ==
    Range(aliases_to_prune(worktree_dirs(order), Meta, key_order))
      \cap repositories

C6_DirtyBlocksRemove ==
    \A a \in Names :
      dirs[a].state = "dirty" =>
        ~remove_run(a).ok /\ Same(remove_run(a))

\* a dirty worktree of a registered alias in a stamped ticket
C6_Witness ==
    /\ ticket_dir
    /\ \E a \in repositories :
         /\ a \in StampKeys
         /\ dirs[a].state = "dirty"
         /\ replace(dirs[a].branch, "/", "_") \in worktrees[a]

\* ---- C7
\* C7: after remove(a) returns success on a clean worktree, the worktree
\* directory is gone, the source repository holds no record of that worktree,
\* and a is in neither repos nor repo_branches of the metadata.
C7_RemoveLeavesNoTrace ==
    \A a \in Names :
      (dirs[a].state = "clean" /\ remove_run(a).ok) =>
        LET out == remove_run(a) IN
        /\ out.g.dirs[a] = Absent
        /\ replace(dirs[a].branch, "/", "_") \notin out.g.worktrees[a]
        /\ out.stamp # None
        /\ a \notin Range(out.stamp[1].repos)
        /\ a \notin DOMAIN out.stamp[1].repo_branches

\* ---- C8
\* the branch names the namer is to derive for the descriptions in use
FeatureJ1 == << "f","e","a","t","u","r","e","/","J","-","1" >>
FeatureJ1MyF == FeatureJ1 \o << "-","m","y","-","f" >>
deriveBranch(description) ==
    IF description = None THEN FeatureJ1 ELSE FeatureJ1MyF

\* C8: a setup of a ticket that does not exist yet, over a non-empty set of
\* registered aliases, that returns success leaves the ticket directory and a
\* worktree directory per alias, the derived branch name as the metadata's
\* branch, and that branch as every alias's entry in repo_branches.
C8_FreshSetup ==
    ~ticket_dir =>
      \A in \in SetupInputs :
        \A key_order \in SetupKeyOrders(in) :
          LET out == setup_run(in.repos, in.all, in.description, in.order,
                               key_order, in.remote_ok)
              T == IF in.all THEN repositories
                   ELSE Range(in.repos) \cap repositories
          IN  (T # {} /\ out.ok) =>
                /\ out.ticket_dir
                /\ out.stamp # None
                /\ TicketLoad(out.stamp)[1].branch
                     = deriveBranch(in.description)
                /\ \A a \in T :
                     /\ IsWorktree(out.g.dirs[a])
                     /\ a \in DOMAIN TicketLoad(out.stamp)[1].repo_branches
                     /\ TicketLoad(out.stamp)[1].repo_branches[a]
                          = TicketLoad(out.stamp)[1].branch

\* the ticket a fresh setup over both aliases with a description leaves
C8_Witness ==
    /\ ticket_dir
    /\ Meta # None
    /\ Meta[1].branch = FeatureJ1MyF
    /\ Range(Meta[1].repos) = { "api", "web" }
    /\ \A a \in { "api", "web" } :
         /\ dirs[a] = Worktree(FeatureJ1MyF, "clean")
         /\ Meta[1].repo_branches[a] = FeatureJ1MyF

\* ---- C9
\* C9: after a successful setup over a registered alias a, the metadata has a
\* in repo_branches and in repo_worktrees, and the worktree name recorded for
\* a is the name of a record the source repository holds.
C9_WorktreeNameRecorded ==
    \A in \in SetupInputs :
      \A key_order \in SetupKeyOrders(in) :
        LET out == setup_run(in.repos, in.all, in.description, in.order,
                             key_order, in.remote_ok)
            T == Range(setup_targets(in.repos, in.all, in.order))
        IN  out.ok =>
              \A a \in T :
                /\ a \in DOMAIN TicketLoad(out.stamp)[1].repo_branches
                /\ a \in DOMAIN TicketLoad(out.stamp)[1].repo_worktrees
                /\ TicketLoad(out.stamp)[1].repo_worktrees[a]
                     \in out.g.worktrees[a]

\* ---- C10
\* no alias given and no --all, or every given alias unregistered
EmptySelection(in) ==
    IF in.all THEN repositories = {}
    ELSE Range(in.repos) \cap repositories = {}

\* C10 (as stated): setup with an empty effective selection succeeds and
\* leaves the ticket directory and a loadable metadata record with the given
\* id whose repos is empty.
C10_EmptySelectionBare ==
    \A in \in SetupInputs :
      \A key_order \in SetupKeyOrders(in) :
        LET out == setup_run(in.repos, in.all, in.description, in.order,
                             key_order, in.remote_ok)
        IN  EmptySelection(in) =>
              /\ out.ok
              /\ out.ticket_dir
              /\ TicketLoad(out.stamp) # None
              /\ TicketLoad(out.stamp)[1].id = TicketId
              /\ TicketLoad(out.stamp)[1].repos = << >>

\* C10 (amended): setup with an empty effective selection succeeds and leaves
\* the ticket directory and a loadable metadata record with the given id;
\* repos is empty when the ticket had no loadable metadata before the call,
\* and is what it was otherwise.
C10_EmptySelectionStamps ==
    \A in \in SetupInputs :
      \A key_order \in SetupKeyOrders(in) :
        LET out == setup_run(in.repos, in.all, in.description, in.order,
                             key_order, in.remote_ok)
        IN  EmptySelection(in) =>
              /\ out.ok
              /\ out.ticket_dir
              /\ TicketLoad(out.stamp) # None
              /\ TicketLoad(out.stamp)[1].id = TicketId
              /\ TicketLoad(out.stamp)[1].repos
                   = IF ticket_dir /\ Meta # None THEN Meta[1].repos
                     ELSE << >>

\* a bare stamped ticket
C10_Witness ==
    /\ ticket_dir
    /\ Meta # None
    /\ Meta[1].id = TicketId
    /\ Meta[1].repos = << >>
    /\ Meta[1].repo_branches = EmptyMap
    /\ SubDirs = {}

\* ---- C11
\* C11: in a setup over several aliases a failed worktree creation does not
\* end the run: when every fetch succeeds, every target alias whose worktree
\* can be created has its worktree on the setup's branch afterwards.
C11_SetupContinuesOnError ==
    \A in \in SetupInputs :
      \A key_order \in SetupKeyOrders(in) :
        LET out == setup_run(in.repos, in.all, in.description, in.order,
                             key_order, in.remote_ok)
            branch_name == build_branch_name(DEFAULT_BRANCH_PREFIX, TicketId,
                                             in.description)
            T == Range(setup_targets(in.repos, in.all, in.order))
        IN  (\A a \in T : fetch_and_fast_forward(Git, a, in.remote_ok)) =>
              \A a \in T :
                create_worktree(Git, a, branch_name, None).ok =>
                  out.g.dirs[a] = Worktree(branch_name, "clean")

\* ---- C12
\* C12: in setup a failed fetch is not fatal: the worktree of the first
\* target alias is still created, from the repository as it is, whenever its
\* creation can succeed.
C12_SetupFetchNotFatal ==
    \A in \in SetupInputs :
      \A key_order \in SetupKeyOrders(in) :
        LET out == setup_run(in.repos, in.all, in.description, in.order,
                             key_order, in.remote_ok)
            branch_name == build_branch_name(DEFAULT_BRANCH_PREFIX, TicketId,
                                             in.description)
            target_repos == setup_targets(in.repos, in.all, in.order)
        IN  (~in.remote_ok /\ target_repos # << >>) =>
              (create_worktree(Git, Head(target_repos), branch_name, None).ok
                 => out.g.dirs[Head(target_repos)]
                      = Worktree(branch_name, "clean"))

\* ---- C14
\* C14: add(a) refuses whenever the path <ticket>/a exists: it fails and
\* leaves the branches, the worktree records, the directories and the
\* metadata as they were, and for a registered alias of a ticket whose
\* metadata loads it returns at the already-exists check, before any fetch.
C14_ExistingPathRefused ==
    \A a \in Names, base_ref \in BaseRefs :
      dirs[a] # Absent =>
        /\ ~add_run(a, base_ref).ok
        /\ Same(add_run(a, base_ref))
        /\ (ticket_dir /\ Meta # None /\ a \in repositories) =>
             add_error(a, base_ref) = "AlreadyExists"

\* a plain directory in the place of the worktree of a cloned, registered
\* alias
C14_Witness ==
    /\ ticket_dir
    /\ Meta # None
    /\ \E a \in repositories \cap cloned : dirs[a].state = "plain"

\* ---- C15
\* C15: add(a) writes the alias and its branch to the metadata only once the
\* worktree is created: a failed add leaves the stored metadata as it was,
\* and after a successful add repo_branches holds a and <ticket>/a exists.
C15_StampAfterWorktree ==
    \A a \in Names, base_ref \in BaseRefs :
      LET out == add_run(a, base_ref) IN
      /\ ~out.ok => out.stamp = stamp
      /\ out.stamp # stamp => IsWorktree(out.g.dirs[a])
      /\ out.ok =>
           /\ out.stamp # None
           /\ a \in DOMAIN out.stamp[1].repo_branches
           /\ out.g.dirs[a] # Absent

\* an alias not yet in the metadata whose worktree cannot be created
C15_Witness ==
    /\ ticket_dir
    /\ Meta # None
    /\ \E a \in repositories \ StampKeys, base_ref \in BaseRefs :
         add_error(a, base_ref) = "CreateFailed"

\* ---- C13
\* C13: add(a) takes the branch of the new worktree from the stored
\* repo_branches[a] if there is one, else from the ticket's branch if it is
\* not empty, else derives it from prefix, id and the stored description.
C13_AddBranchPriority ==
    Meta # None =>
      \A a \in Names, base_ref \in BaseRefs :
        LET expected ==
              IF a \in DOMAIN Meta[1].repo_branches
              THEN Meta[1].repo_branches[a]
              ELSE IF Meta[1].branch # << >> THEN Meta[1].branch
              ELSE deriveBranch(Meta[1].description)
        IN  /\ add_branch_name(Meta[1], a) = expected
            /\ add_run(a, base_ref).ok =>
                 add_run(a, base_ref).g.dirs[a] = Worktree(expected, "clean")

\* a described ticket without a branch and an alias without an entry: add
\* derives the branch, and succeeds
C13_Witness ==
    /\ Meta # None
    /\ Meta[1].branch = << >>
    /\ Meta[1].description # None
    /\ \E a \in Names \ DOMAIN Meta[1].repo_branches : add_run(a, None).ok

\* ---- C16
\* C16: add_repos_with_branch(aliases, b) overwrites no recorded per-repo
\* branch: an alias that load maps to b0 is still mapped to b0 afterwards,
\* only aliases without an entry receive b; so a repeated setup, whatever its
\* description, leaves every recorded per-repo branch as it was.
C16_NoOverwrite ==
    (ticket_dir /\ Meta # None) =>
      /\ \A repos \in AliasLists, branch \in StoreBranches :
           LET after == add_repos_with_branch(stamp, repos, branch)[1] IN
           /\ DOMAIN after.repo_branches
                = DOMAIN Meta[1].repo_branches \cup Range(repos)
           /\ \A a \in DOMAIN after.repo_branches :
                after.repo_branches[a]
                  = IF a \in DOMAIN Meta[1].repo_branches
                    THEN Meta[1].repo_branches[a] ELSE branch
      /\ \A in \in SetupInputs :
           \A key_order \in SetupKeyOrders(in) :
             LET out == setup_run(in.repos, in.all, in.description, in.order,
                                  key_order, in.remote_ok)
             IN  \A a \in DOMAIN Meta[1].repo_branches :
                   /\ a \in DOMAIN out.stamp[1].repo_branches
                   /\ out.stamp[1].repo_branches[a] = Meta[1].repo_branches[a]

\* an alias recorded on a branch other than one the store may be handed
C16_Witness ==
    /\ stamp # None
    /\ \E a \in DOMAIN stamp[1].repo_branches, branch \in StoreBranches :
         /\ stamp[1].repo_branches[a] # << >>
         /\ stamp[1].repo_branches[a] # branch

\* ---- C17
\* C17: load of a stored record with aliases in repos and nothing in
\* repo_branches maps every alias of repos to the ticket's branch; a record
\* with entries in repo_branches is returned with them as stored.
C17_SelfHeal ==
    stamp # None =>
      LET stored == stamp[1]
          loaded == TicketLoad(stamp)[1]
      IN  /\ (stored.repos # << >> /\ DOMAIN stored.repo_branches = {}) =>
                /\ DOMAIN loaded.repo_branches = Range(stored.repos)
                /\ \A a \in Range(stored.repos) :
                     loaded.repo_branches[a] = stored.branch
          /\ DOMAIN stored.repo_branches # {} =>
               loaded.repo_branches = stored.repo_branches
          /\ loaded.repos = stored.repos
          /\ loaded.branch = stored.branch

\* a legacy record: aliases, a branch, no per-repo branches
C17_Witness ==
    /\ stamp # None
    /\ stamp[1].repos # << >>
    /\ stamp[1].branch # << >>
    /\ stamp[1].repo_branches = EmptyMap

\* ---- C18
\* what each updating operation writes, for every argument
StoreWrites ==
    { add_repos_with_branch(stamp, repos, branch) :
        repos \in AliasLists, branch \in StoreBranches }
    \cup { add_repo_branch(stamp, repo, branch) :
             repo \in Names, branch \in StoreBranches }
    \cup { remove_repo(stamp, repo) : repo \in Names }

\* C18: from a legacy stored record, what add_repos_with_branch,
\* add_repo_branch or remove_repo writes holds the healed branch for every
\* alias still in repos, so that a later load has nothing to heal.
C18_HealPersisted ==
    (stamp # None /\ stamp[1].repos # << >>
       /\ stamp[1].repo_branches = EmptyMap) =>
      \A written \in StoreWrites :
        /\ \A a \in Range(written[1].repos) \cap Range(stamp[1].repos) :
             /\ a \in DOMAIN written[1].repo_branches
             /\ written[1].repo_branches[a] = stamp[1].branch
        /\ TicketLoad(written)[1] = written[1]

\* a legacy record with two aliases: one stays when the other is removed
C18_Witness ==
    /\ stamp # None
    /\ Len(stamp[1].repos) = 2
    /\ stamp[1].repo_branches = EmptyMap

\* ---- C19
\* C19: in every stored and every loaded record every key of repo_branches
\* is in repos, and repos lists no alias twice.
C19_KeysWithinRepos ==
    stamp # None =>
      \A m \in { stamp[1], Meta[1] } :
        /\ DOMAIN m.repo_branches \subseteq Range(m.repos)
        /\ Cardinality(Range(m.repos)) = Len(m.repos)

\* a record with two aliases, each with its branch
C19_Witness ==
    /\ stamp # None
    /\ Len(stamp[1].repos) = 2
    /\ Cardinality(DOMAIN stamp[1].repo_branches) = 2

\* ---- C21
\* every worktree name the branch namer can lead to
WorktreeNames == { worktree_name_for_branch(b) : b \in StoreBranches }

\* C21: create_worktree for a branch that exists locally, with the target
\* path absent again, succeeds and leaves the set of local branches as it
\* is.  (A record of this ticket is bound to <ticket>/<repo>, the target
\* path itself, so the permitted error, a name bound to another path, does
\* not occur here.)
C21_RecreateReusesBranch ==
    \A repo \in cloned, base_ref \in BaseRefs :
      \A branch_name \in branches[repo] :
        dirs[repo] = Absent =>
          LET made == create_worktree(Git, repo, branch_name, base_ref) IN
          /\ made.ok
          /\ made.g.branches = branches
          /\ made.g.dirs[repo] = Worktree(branch_name, "clean")

\* ---- C22
\* C22: remove_worktree for a name without a record in an openable
\* repository returns Ok and changes nothing, the first time and again.
C22_UnknownNameNoOp ==
    \A repo \in cloned :
      \A worktree_name \in WorktreeNames \ worktrees[repo] :
        LET once == remove_worktree(Git, repo, worktree_name)
            twice == remove_worktree(once.g, repo, worktree_name)
        IN  /\ once.ok /\ once.g = Git
            /\ twice.ok /\ twice.g = Git

\* a repository whose branch once had a record that is pruned by now
C22_Witness ==
    \E repo \in cloned :
      \E b \in branches[repo] :
        /\ worktree_name_for_branch(b) \notin worktrees[repo]
        /\ dirs[repo] = Absent

\* ---- C23
\* C23: remove_worktree leaves every directory, every local branch and
\* every record but the named one of the given repository as they are.
C23_PruneFrame ==
    \A repo \in Names :
      \A worktree_name \in WorktreeNames :
        LET out == remove_worktree(Git, repo, worktree_name) IN
        /\ out.g.dirs = dirs
        /\ out.g.branches = branches
        /\ out.g.cloned = cloned
        /\ \A r \in Names :
             /\ r # repo => out.g.worktrees[r] = worktrees[r]
             /\ out.g.worktrees[r] \ { worktree_name }
                  = worktrees[r] \ { worktree_name }

\* two records in one repository, the working directory gone: pruning one
\* record succeeds and the other is there to be kept
C23_Witness ==
    \E repo \in cloned :
      /\ Cardinality(worktrees[repo]) = 2
      /\ dirs[repo] = Absent
      /\ \E worktree_name \in worktrees[repo] :
           remove_worktree(Git, repo, worktree_name).ok

\* ---- C29
\* C29: add that returns an error, at whichever step, leaves the metadata,
\* the ticket directory and its subdirectories, and the local branches and
\* worktree records of every repository as they were.
C29_AddFailsAtomically ==
    \A repo_alias \in Names, base_ref \in BaseRefs :
      ~add_run(repo_alias, base_ref).ok => Same(add_run(repo_alias, base_ref))

\* add fails in create_worktree itself: at the base reference, or at the
\* registration of the worktree
C29_Witness ==
    /\ \E repo_alias \in Names :
         /\ add_error(repo_alias, None) = "CreateFailed"
         /\ repo_alias \in cloned
    /\ \E repo_alias \in Names, base_ref \in BaseRefs :
         /\ add_error(repo_alias, base_ref) = "CreateFailed"
         /\ add_branch_name(Meta[1], repo_alias) \notin branches[repo_alias]
         /\ repo_alias \in cloned

\* ---- C27
Uppercase == Range(AsciiUpper) \cup { "U+00C9" }

\* C27: the name the namer returns neither starts nor ends with "-", holds
\* no uppercase letter and no two "-" in a row.
C27_WellFormedName ==
    derived # None =>
      LET name == derived[1] IN
      /\ name # << >>
      /\ name[1] # "-"
      /\ name[Len(name)] # "-"
      /\ \A i \in 1..Len(name) : name[i] \notin Uppercase
      /\ \A i \in 1..(Len(name) - 1) : ~(name[i] = "-" /\ name[i + 1] = "-")

\* ---- C28
\* the lowercase form of a character
Lowercase(c) == IF c = "U+00C9" THEN "U+00E9" ELSE to_ascii_lowercase(c)

\* the elements of s at the positions K, in their order
Pick(s, K) ==
    LET at == [j \in 1..Cardinality(K) |->
                 CHOOSE i \in K : Cardinality({ x \in K : x < i }) = j - 1]
    IN  [j \in 1..Cardinality(K) |-> s[at[j]]]

\* sanitising as the claim words it: lowercase the alphanumerics, "-" for
\* every other character, one "-" per run, none at either end
Sanitised(input) ==
    LET m == [i \in 1..Len(input) |->
                IF is_alphanumeric(input[i]) THEN Lowercase(input[i])
                ELSE "-"]
        kept == { i \in 1..Len(m) :
                    \/ m[i] # "-"
                    \/ /\ i > 1
                       /\ m[i - 1] # "-"
                       /\ \E j \in (i + 1)..Len(m) : m[j] # "-" }
    IN  Pick(m, kept)

\* C28: sanitize_description is that sanitising, and the name returned is
\* prefix/id, followed by "-" and the sanitised description exactly when a
\* description is given whose sanitised form is not empty.
C28_SanitisedName ==
    derived # None =>
      LET base == DEFAULT_BRANCH_PREFIX \o << "/" >> \o given.ticket_id
          d == given.description
      IN  /\ d # None => sanitize_description(d[1]) = Sanitised(d[1])
          /\ derived[1] = IF d # None /\ Sanitised(d[1]) # << >>
                          THEN base \o << "-" >> \o Sanitised(d[1])
                          ELSE base

\* ---- C24
\* C24: within one session no strategy is attempted more than once, however
\* often and for whatever kinds the callback is invoked, and a session
\* begins with no strategy marked or attempted.
C24_EachStrategyOnce ==
    /\ \A s \in Strategies : attempts[s] <= 1
    /\ calls = 0 =>
         /\ ~tried_sshkey /\ ~tried_cred_helper /\ ~tried_git_command
         /\ \A s \in Strategies : attempts[s] = 0

\* every strategy has had its attempt and the backend has asked once more
C24_Witness ==
    /\ \A s \in Strategies : attempts[s] = 1
    /\ calls >= 3

\* ---- C25
\* the strategies that answer a challenge for the given kinds
Applicable(allowed_types) ==
    (IF "ssh_key" \in allowed_types THEN { "sshkey" } ELSE {})
    \cup (IF allowed_types \cap { "user_pass_plaintext", "username" } # {}
          THEN { "cred_helper", "git_command" } ELSE {})

\* C25: a session hands out at most three credentials, and once every
\* strategy applicable to a challenge has been attempted the callback
\* answers that challenge with the authentication error, attempting nothing.
C25_ChainTerminates ==
    /\ returned <= 3
    /\ \A allowed_types \in SUBSET CredentialKinds,
          agent_ok \in BOOLEAN, helper_ok \in BOOLEAN, command_ok \in BOOLEAN :
         (\A s \in Applicable(allowed_types) : attempts[s] >= 1) =>
           LET out == credentials(Session, allowed_types, agent_ok,
                                  helper_ok, command_ok)
           IN  out.result = "error" /\ out.attempted = {} /\ out.s = Session

\* two credentials handed out and rejected, then the error
C25_Witness ==
    /\ returned = 2
    /\ last = "error"
    /\ \A s \in Strategies : attempts[s] >= 1

\* ---- C26
\* C26: fetch_and_fast_forward moves main only when HEAD is on main, main
\* has an upstream and its tip is a proper ancestor of the remote's tip, and
\* then main and the working tree are at that tip; otherwise a call whose
\* fetch succeeds returns Ok with main and the working tree as they were.
\* A second call right after changes nothing.
C26_FastForwardOnly ==
    \A remote_ok \in BOOLEAN :
      LET out == fetch_and_fast_forward_refs(Refs, remote_ok)
          theirs == origin[MainRef]
          eligible == /\ remote_ok
                      /\ head = "branch"
                      /\ MainRef \in upstream
                      /\ tip # theirs
                      /\ Ancestor(tip, theirs)
      IN  /\ out.refs.tip # tip => eligible
          /\ eligible => /\ out.ok
                          /\ out.refs.tip = theirs
                          /\ out.refs.tree = theirs
          /\ (remote_ok /\ ~eligible) =>
                /\ out.ok
                /\ out.refs.tip = tip
                /\ out.refs.tree = tree
          /\ fetch_and_fast_forward_refs(out.refs, remote_ok).refs = out.refs

\* main fast-forwarded to a commit of the remote, which has gone on since,
\* and elsewhere local commits that diverge
C26_Witness ==
    /\ tip = << 1, 0 >>
    /\ tree = << 1, 0 >>
    /\ origin[MainRef] = << 2, 0 >>
    /\ head = "branch"
    /\ MainRef \in upstream

\* ---- C30
\* C30: a create_worktree for a branch name b that succeeds while the
\* remote-tracking branch origin/b exists leaves the local branch b with
\* its upstream configured.
C30_UpstreamSet ==
    [][\A b \in StoreBranches :
         (/\ b \in DOMAIN tracking
          /\ \E base_ref \in BaseRefs :
               /\ create_worktree(Git, "api", b, base_ref).ok
               /\ CreateWorktreeStep(b, base_ref))
         => b \in upstream']_vars

\* ---- C33
\* C33: when destroy cannot load the metadata, the aliases it prunes are
\* the names of the ticket's subdirectories other than .tix; when the
\* metadata loads they are the keys of repo_branches, whatever directories
\* exist. A destroy that succeeds has pruned the record of each of these
\* that is registered, and no record of any other alias.
C33_PruneSet ==
    ticket_dir =>
      \A force \in BOOLEAN, order \in DestroyOrders,
         key_order \in Orders(StampKeys) :
        LET aliases == aliases_to_prune(worktree_dirs(order), Meta, key_order)
            expected == IF Meta = None THEN SubDirs
                        ELSE DOMAIN Meta[1].repo_branches
            out == destroy_run(force, "outside", order, key_order)
        IN  /\ Range(aliases) = expected
            /\ out.ok =>
                 \A a \in Names :
                   out.g.worktrees[a] =
                     IF a \in expected \cap repositories
                     THEN worktrees[a] \ { prune_worktree_name(Meta, a) }
                     ELSE worktrees[a]

\* the metadata loads and lists an alias whose directory is gone while its
\* record is still there, and destroy succeeds
C33_Witness ==
    /\ ticket_dir
    /\ Meta # None
    /\ \E a \in DOMAIN Meta[1].repo_branches \cap repositories :
         /\ dirs[a] = Absent
         /\ prune_worktree_name(Meta, a) \in worktrees[a]
    /\ \E order \in DestroyOrders, key_order \in Orders(StampKeys) :
         destroy_run(FALSE, "outside", order, key_order).ok

\* ---- C34
\* the aliases of a list that are in the registry, in the list's order
Registered(aliases) ==
    LET known(a) == a \in repositories IN SelectSeq(aliases, known)

\* C34: an alias that is not in the registry is skipped by the pruning of
\* destroy and does not fail it: a destroy that passed its safety checks
\* ends as if the alias had not been listed, so the remaining aliases are
\* pruned, and the ticket directory is removed when each of them could be.
C34_UnregisteredSkipped ==
    ticket_dir =>
      \A force \in BOOLEAN, order \in DestroyOrders,
         key_order \in Orders(StampKeys) :
        LET dir_list == worktree_dirs(order)
            aliases == aliases_to_prune(dir_list, Meta, key_order)
            cleared == [Git EXCEPT !.dirs = [n \in Names |-> Absent]]
            listed == prune_worktrees(cleared, Meta, Registered(aliases))
            out == destroy_run(force, "outside", order, key_order)
        IN  (/\ Range(aliases) \ repositories # {}
             /\ ~destroy_refuses(force, dir_list)) =>
              /\ out.ok = listed.ok
              /\ out.g = listed.g
              /\ out.ok => ~out.ticket_dir /\ out.stamp = None
              /\ PruneTargets(order, key_order) \subseteq cloned => out.ok

\* read_dir lists an unregistered name before a registered alias whose
\* record is still there, and the forced destroy prunes that record and
\* removes the ticket
C34_Witness ==
    /\ ticket_dir
    /\ \E order \in DestroyOrders, key_order \in Orders(StampKeys) :
         LET aliases == aliases_to_prune(worktree_dirs(order), Meta, key_order)
             out == destroy_run(TRUE, "outside", order, key_order)
         IN  /\ Len(aliases) = 2
             /\ aliases[1] \notin repositories
             /\ aliases[2] \in repositories
             /\ prune_worktree_name(Meta, aliases[2]) \in worktrees[aliases[2]]
             /\ out.ok
             /\ ~out.ticket_dir
             /\ out.g.worktrees[aliases[2]] = {}

\* ---- C38
\* every alias of a record is mapped to a branch name that is not empty
NamedBranches(stored) ==
    \A a \in DOMAIN stored[1].repo_branches :
      stored[1].repo_branches[a] # << >>

\* C38: the record load returns, and every record ensure_branch,
\* add_repos_with_branch, add_repo_branch or remove_repo persists, maps no
\* alias to an empty branch name, whether the stamp was created by
\* Ticket::create or is a legacy one, its branch empty or not.
C38_NoEmptyBranch ==
    stamp # None =>
      /\ NamedBranches(TicketLoad(stamp))
      /\ \A branch \in StoreBranches :
           /\ NamedBranches(ensure_branch(stamp, branch))
           /\ \A repos \in AliasLists :
                NamedBranches(add_repos_with_branch(stamp, repos, branch))
           /\ \A repo \in Names :
                NamedBranches(add_repo_branch(stamp, repo, branch))
      /\ \A repo \in Names : NamedBranches(remove_repo(stamp, repo))

\* ---- C39
\* a record afterwards that holds the ticket-level branch of the stamp
KeepsBranch(stored) ==
    /\ stored # None
    /\ stored[1].branch = stamp[1].branch

\* C39: once the stamp holds a ticket-level branch that is not empty, no
\* setup, add, remove, ensure_branch, add_repos_with_branch,
\* add_repo_branch or remove_repo changes that branch, and ensure_branch
\* leaves the stamp as it is stored.
C39_BranchWriteOnce ==
    (stamp # None /\ stamp[1].branch # << >>) =>
      /\ \A branch \in StoreBranches :
           /\ ensure_branch(stamp, branch) = stamp
           /\ \A repos \in AliasLists :
                KeepsBranch(add_repos_with_branch(stamp, repos, branch))
           /\ \A repo \in Names :
                KeepsBranch(add_repo_branch(stamp, repo, branch))
      /\ \A repo \in Names : KeepsBranch(remove_repo(stamp, repo))
      /\ \A in \in SetupInputs :
           \A key_order \in SetupKeyOrders(in) :
             KeepsBranch(setup_run(in.repos, in.all, in.description,
                                   in.order, key_order, in.remote_ok).stamp)
      /\ \A repo_alias \in Names :
           /\ \A base_ref \in BaseRefs :
                KeepsBranch(add_run(repo_alias, base_ref).stamp)
           /\ KeepsBranch(remove_run(repo_alias).stamp)

\* a stamp whose ticket-level branch stayed while an alias was recorded on
\* another branch, and which load still heals or a setup with another
\* description would meet
C39_Witness ==
    /\ stamp # None
    /\ stamp[1].branch # << >>
    /\ \E a \in DOMAIN stamp[1].repo_branches :
         /\ stamp[1].repo_branches[a] # << >>
         /\ stamp[1].repo_branches[a] # stamp[1].branch
    /\ \E branch \in StoreBranches : branch # stamp[1].branch

\* ---- C37
\* C37: after any sequence of setup, add and remove, with worktree
\* directories edited or deleted by hand in between, the metadata maps
\* every alias that has a worktree in the ticket to the branch
\* create_worktree was called with for that worktree.
C37_BranchAgreement ==
    (ticket_dir /\ Meta # None) =>
      \A a \in Names :
        IsWorktree(dirs[a]) =>
          /\ a \in DOMAIN Meta[1].repo_branches
          /\ Meta[1].repo_branches[a] = dirs[a].branch

\* ---- C35
\* explicit bases, one of them the remote-tracking main
ExplicitBases == BaseRefs \cup { Some(OriginMain) }

\* what remote.default_branch() may answer
RemoteHeads == { None, Some(HeadsMain) }

\* the references as they are, and as they would be with HEAD unborn
HeadCases == { Refs, [Refs EXCEPT !.head = "unborn"] }

\* C35: the commit of a branch create_worktree has to create is that of
\* the explicit base_ref when one is given; without one, that of the
\* default branch (the remote's symbolic HEAD, else the reference the
\* repository's HEAD resolves to); without either, that of HEAD. When no
\* commit resolves create_worktree fails and has made neither a branch
\* nor a worktree record.
C35_BasePriority ==
    /\ \A refs \in HeadCases, base_ref \in ExplicitBases,
          remote_head \in RemoteHeads :
         LET commit == base_commit(refs, base_ref, remote_head) IN
         /\ base_ref # None => commit = revparse_single(refs, base_ref[1])
         /\ (base_ref = None /\ remote_head # None) =>
              commit = revparse_single(refs, remote_head[1])
         /\ (base_ref = None /\ remote_head = None
                /\ head_name(refs) # None) =>
              commit = revparse_single(refs, head_name(refs)[1])
         /\ (base_ref = None /\ remote_head = None
                /\ head_name(refs) = None) =>
              commit = head_commit(refs)
    /\ \A base_ref \in BaseRefs, remote_head \in RemoteHeads :
         \A branch_name \in StoreBranches \ branches["api"] :
           LET made == create_worktree(Git, "api", branch_name, base_ref) IN
           /\ resolves(Git, "api", base_ref)
                <=> base_commit(Refs, base_ref, remote_head) # None
           /\ base_commit(Refs, base_ref, remote_head) = None =>
                ~made.ok /\ made.g = Git

\* the remote-tracking main is ahead of the local main, one ticket branch
\* has been created with its worktree and another is still to be created
C35_Witness ==
    /\ tracking[MainRef] # tip
    /\ \E b \in branches["api"] : dirs["api"] = Worktree(b, "clean")
    /\ StoreBranches \ branches["api"] # {}
    /\ base_commit(Refs, Some(OriginMain), None) # base_commit(Refs, None, None)

\* ---- C36
\* C36: one invocation of the callback asks the SSH agent first, and only
\* when the challenge accepts a key; then the credential helper; then the
\* external `git credential fill`. A strategy that yields a credential
\* ends the invocation, so a later one is asked only after the earlier
\* ones it could ask have failed, and the external fill only after the
\* helper lookup of the same invocation has failed.
C36_StrategyOrder ==
    \A allowed_types \in SUBSET CredentialKinds,
       agent_ok \in BOOLEAN, helper_ok \in BOOLEAN, command_ok \in BOOLEAN :
      LET out == credentials(Session, allowed_types, agent_ok, helper_ok,
                             command_ok)
      IN  /\ "sshkey" \in out.attempted => "ssh_key" \in allowed_types
          /\ ("sshkey" \in out.attempted /\ agent_ok) =>
               out.attempted = { "sshkey" } /\ out.result = "cred"
          /\ ("cred_helper" \in out.attempted
                 /\ "ssh_key" \in allowed_types /\ ~tried_sshkey) =>
               "sshkey" \in out.attempted /\ ~agent_ok
          /\ ("cred_helper" \in out.attempted /\ helper_ok) =>
               "git_command" \notin out.attempted /\ out.result = "cred"
          /\ "git_command" \in out.attempted =>
               "cred_helper" \in out.attempted /\ ~helper_ok

\* a session whose one invocation so far asked all three and failed
C36_Witness ==
    /\ calls = 1
    /\ attempts = [s \in Strategies |-> 1]
    /\ last = "error"

\* ---- C40
\* C40: destroy removes the worktree directories, then prunes the backend
\* records, then removes the ticket root. The root, and the metadata with
\* it, is gone only when the pruning of every alias succeeded or was
\* skipped; when the pruning of an alias fails destroy returns an error
\* with the directories removed and the metadata as it was.
C40_DestroyOrder ==
    ticket_dir =>
      \A force \in BOOLEAN, order \in DestroyOrders,
         key_order \in Orders(StampKeys) :
        LET dir_list == worktree_dirs(order)
            out == destroy_run(force, "outside", order, key_order)
        IN  ~destroy_refuses(force, dir_list) =>
              /\ \A n \in Names : out.g.dirs[n] = Absent
              /\ ~out.ticket_dir =>
                   /\ out.ok
                   /\ out.stamp = None
                   /\ \A a \in PruneTargets(order, key_order) :
                        /\ a \in cloned
                        /\ prune_worktree_name(Meta, a)
                             \notin out.g.worktrees[a]
              /\ ~out.ok =>
                   /\ out.ticket_dir
                   /\ out.stamp = stamp
                   /\ \E a \in PruneTargets(order, key_order) :
                        a \notin cloned
              /\ out.ok => ~out.ticket_dir

\* a stamped ticket with a worktree of api, and web listed but not cloned:
\* destroy removes the directory, prunes the record of api, fails on web
\* and leaves the ticket root with its metadata
C40_Witness ==
    /\ ticket_dir
    /\ Meta # None
    /\ IsWorktree(dirs["api"])
    /\ prune_worktree_name(Meta, "api") \in worktrees["api"]
    /\ \E order \in DestroyOrders, key_order \in Orders(StampKeys) :
         LET out == destroy_run(TRUE, "outside", order, key_order) IN
         /\ ~out.ok
         /\ out.ticket_dir
         /\ out.stamp = stamp
         /\ out.g.dirs["api"] = Absent
         /\ out.g.worktrees["api"] = {}

\* ---- C32
\* the aliases the two invocations add that the stamp lists
Added ==
    { target(p) : p \in Invocations } \cap DOMAIN stamp[1].repo_branches

\* C32: two invocations that add different aliases to one ticket load,
\* change and persist without any guard. When one loads while the other
\* holds a loaded record not yet written, the stamp both have written
\* lists only one of the two aliases, in repo_branches and in repos; when
\* one runs after the other it lists both.
C32_LostUpdate ==
    (\A p \in Invocations : pc[p] = "done") =>
      /\ Added = { a \in Names : a \in Range(stamp[1].repos) }
      /\ overlap => Cardinality(Added) = 1
      /\ ~overlap => Added = { target(p) : p \in Invocations }

\* both have written, the second load fell between the load and the write
\* of the first, and the alias of the first is lost
C32_Witness ==
    /\ \A p \in Invocations : pc[p] = "done"
    /\ overlap
    /\ Added = { "web" }
    /\ "api" \notin DOMAIN held[2][1].repo_branches

\* ---- C31
\* C31: in a run of setup or add, create_worktree is called for an alias
\* only after the fetch_and_fast_forward of that alias has been attempted
\* and has returned: the call before each create_worktree is the fetch of
\* the same alias.
C31_FetchBeforeCreate ==
    \A i \in 1..Len(log) :
      log[i][1] = "create_worktree" =>
        /\ i > 1
        /\ log[i - 1] = << "fetch", log[i][2] >>

\* a run of setup that has made a worktree for each of two aliases
C31_Witness ==
    /\ Len(log) = 4
    /\ log[2][1] = "create_worktree"
    /\ log[4][1] = "create_worktree"
    /\ log[2][2] # log[4][2]
    /\ IsWorktree(dirs[log[2][2]])
    /\ IsWorktree(dirs[log[4][2]])

====
